---------------------------- MODULE Spec2Model ----------------------------
(* PayLevel Up v2: the payroll aggregation and reconciliation rules of the *)
(* application (rate resolution, period totals, payslip reconciliation,    *)
(* calendar range selection, load-time migration), modelled from the       *)
(* TypeScript sources.                                                     *)
(*                                                                         *)
(* Units. Hours are counted in thousandths of an hour (1000 = 1 h), so     *)
(* that the two-decimal rounding of toFixed(2) is a real operation; money  *)
(* is hours x rate, in thousandths of a currency unit. Dates are ISO       *)
(* strings YYYY-MM-DD, modelled as <<year, month, day>>; the string order  *)
(* of the fixed-width format is the lexicographic order of the triple.     *)
(* Identifiers made by crypto.randomUUID() are fresh numbers drawn from a  *)
(* counter.                                                                *)
EXTENDS Integers, Sequences, FiniteSets, TLC

VARIABLES
    tzWest,            \* environment: the local time zone is behind UTC
    uuidCtr,           \* crypto.randomUUID(): the next fresh identifier
    logs,              \* App: WorkLog[]
    jobs,              \* App: Job[]
    settings,          \* App: UserSettings
    templates,         \* App: ShiftTemplate[]
    isLoaded,          \* App: load effect done
    storage,           \* localStorage[STORAGE_KEY]
    selectStart,       \* CalendarView
    selectEnd,         \* CalendarView
    calSelectedJobId,  \* CalendarView: job filter ('all' or a job id)
    verSelectedJobId,  \* PayslipVerifier
    endDate,           \* PayslipVerifier
    periodLength,      \* PayslipVerifier
    slipWeekdayHours,  \* PayslipVerifier (parsed input)
    slipWeekendHours,  \* PayslipVerifier (parsed input)
    slipAllowances,    \* PayslipVerifier (parsed input)
    rendered,          \* the monetary values the views last derived
    route,             \* HashRouter: the page that is mounted
    dashSelectedJobId, \* Dashboard: job filter ('all' or a job id)
    logSelectedJobId,  \* WorkLogger: selectedJobId
    logDate,           \* WorkLogger: date
    mode,              \* WorkLogger: 'range' or 'manual'
    startTime,         \* WorkLogger: HH:mm
    endTime,           \* WorkLogger: HH:mm
    manualDuration,    \* WorkLogger: the text of the duration input
    notes              \* WorkLogger

envVars == <<tzWest, uuidCtr>>
appVars == <<logs, jobs, settings, templates, isLoaded, storage>>
calVars == <<selectStart, selectEnd, calSelectedJobId>>
verVars == <<verSelectedJobId, endDate, periodLength, slipWeekdayHours,
             slipWeekendHours, slipAllowances>>
dashVars == <<route, dashSelectedJobId>>
logVars == <<logSelectedJobId, logDate, mode, startTime, endTime,
            manualDuration, notes>>
vars == <<envVars, appVars, calVars, verVars, rendered, dashVars, logVars>>

---------------------------------------------------------------------------
(* Values                                                                  *)

\* JavaScript null / undefined for a date or an object.
Null == <<>>
\* A jobId that is absent or the empty string: both are falsy.
NoId == 0
\* The job filter value 'all'.
AllJobs == -1

---------------------------------------------------------------------------
(* Dates: new Date("YYYY-MM-DD"), getTime, toISOString, getDay             *)

\* Days since 1970-01-01 of a civil date: new Date(iso).getTime() / 86400000
\* (an ISO date-only string is parsed as UTC midnight).
DaysFromCivil(date) ==
    LET y0  == date[1]
        m   == date[2]
        d   == date[3]
        y   == IF m <= 2 THEN y0 - 1 ELSE y0
        era == y \div 400
        yoe == y - era * 400
        mp  == IF m > 2 THEN m - 3 ELSE m + 9
        doy == (153 * mp + 2) \div 5 + d - 1
        doe == yoe * 365 + yoe \div 4 - yoe \div 100 + doy
    IN  era * 146097 + doe - 719468

\* toISOString().slice(0, 10) of the instant n days after the epoch (UTC).
CivilFromDays(n) ==
    LET z   == n + 719468
        era == z \div 146097
        doe == z - era * 146097
        yoe == (doe - doe \div 1460 + doe \div 36524 - doe \div 146096) \div 365
        doy == doe - (365 * yoe + yoe \div 4 - yoe \div 100)
        mp  == (5 * doy + 2) \div 153
        d   == doy - (153 * mp + 2) \div 5 + 1
        m   == IF mp < 10 THEN mp + 3 ELSE mp - 9
        y   == yoe + era * 400 + (IF m <= 2 THEN 1 ELSE 0)
    IN  <<y, m, d>>

\* The calendar day of the week of a date, Sunday = 0 ... Saturday = 6.
CalendarDayOfWeek(date) == (DaysFromCivil(date) + 4) % 7

\* new Date(iso).getDay(): the string is parsed as UTC midnight and the day
\* is read in LOCAL time, so in a zone behind UTC it is the day before.
getDay(date, west) ==
    (DaysFromCivil(date) - (IF west THEN 1 ELSE 0) + 4) % 7

\* a < b, a <= b on ISO date strings (string comparison, character by
\* character over the fixed-width YYYY-MM-DD).
IsoLess(a, b) ==
    \/ a[1] < b[1]
    \/ a[1] = b[1] /\ a[2] < b[2]
    \/ a[1] = b[1] /\ a[2] = b[2] /\ a[3] < b[3]

IsoLeq(a, b) == a = b \/ IsoLess(a, b)

---------------------------------------------------------------------------
(* Sequence helpers: Array.prototype.filter / reduce / find                *)

RECURSIVE SumSeq(_)
SumSeq(s) == IF s = <<>> THEN 0 ELSE Head(s) + SumSeq(Tail(s))

\* The elements of a sequence.
Range(s) == {s[i] : i \in 1..Len(s)}

\* Every sequence over S of length lo..hi.
SeqsOf(S, lo, hi) == UNION {[1..n -> S] : n \in lo..hi}

\* jobs.find(j => j.id === id): the first match, or undefined.
FindJob(js, id) ==
    IF \E i \in 1..Len(js) : js[i].id = id
    THEN js[CHOOSE i \in 1..Len(js) :
                /\ js[i].id = id
                /\ \A k \in 1..(i - 1) : js[k].id # id]
    ELSE Null

---------------------------------------------------------------------------
(* types.ts                                                                *)

DEFAULT_JOB ==
    [id |-> NoId, name |-> "Main Job", color |-> "#4F46E5",
     hourlyRate |-> 60, weekendHourlyRate |-> 60, targetHours |-> 1000,
     nextHourlyRate |-> 70, nextWeekendHourlyRate |-> 70]

DEFAULT_SETTINGS ==
    [currency |-> "HKD", userName |-> "Employee", payFrequency |-> "biweekly",
     taxRate |-> 0, theme |-> "light"]

\* A WorkLog (the creation timestamp is not modelled: nothing computed here
\* reads it).
MkLog(id, jobId, date, from, to, duration, text) ==
    [id |-> id, jobId |-> jobId, date |-> date, startTime |-> from,
     endTime |-> to, duration |-> duration, notes |-> text]

---------------------------------------------------------------------------
(* RateResolver as each view writes it                                     *)

\* Dashboard.getLogEarnings
getLogEarnings(js, log, west) ==
    LET job == FindJob(js, log.jobId)
    IN  IF job = Null THEN 0
        ELSE LET day  == getDay(log.date, west)
                 rate == IF day = 0 \/ day = 6
                         THEN job.weekendHourlyRate ELSE job.hourlyRate
             IN  log.duration * rate

\* Dashboard.getLogNextEarnings
getLogNextEarnings(js, log, west) ==
    LET job == FindJob(js, log.jobId)
    IN  IF job = Null THEN 0
        ELSE LET day  == getDay(log.date, west)
                 rate == IF day = 0 \/ day = 6
                         THEN job.nextWeekendHourlyRate ELSE job.nextHourlyRate
             IN  log.duration * rate

\* CalendarView.getLogValue
getLogValue(js, log, west) ==
    LET job == FindJob(js, log.jobId)
    IN  IF job = Null THEN 0
        ELSE LET day == getDay(log.date, west)
                 isWeekend == day = 0 \/ day = 6
             IN  log.duration *
                   (IF isWeekend THEN job.weekendHourlyRate ELSE job.hourlyRate)

\* Dashboard / CalendarView filteredLogs
FilterByJob(ls, jobId) ==
    IF jobId = AllJobs THEN ls
    ELSE SelectSeq(ls, LAMBDA l : l.jobId = jobId)

\* Dashboard.calculateTotalEarnings
calculateTotalEarnings(js, ls, west) ==
    SumSeq([i \in 1..Len(ls) |-> getLogEarnings(js, ls[i], west)])

\* Dashboard.potentialNextEarnings
potentialNextEarnings(js, ls, west) ==
    SumSeq([i \in 1..Len(ls) |-> getLogNextEarnings(js, ls[i], west)])

\* What the dashboard derives for a job filter: each filtered log's
\* earnings, their total and the next-tier potential value.
DashboardView(js, ls, sel, west) ==
    LET fl == FilterByJob(ls, sel)
    IN  [view      |-> "dashboard",
         logIds    |-> [i \in 1..Len(fl) |-> fl[i].id],
         perLog    |-> [i \in 1..Len(fl) |-> getLogEarnings(js, fl[i], west)],
         total     |-> calculateTotalEarnings(js, fl, west),
         potential |-> potentialNextEarnings(js, fl, west)]

\* CalendarView.dailyStats: per date, the hours, earnings and count of the
\* filtered logs of that date (dates without a log have no entry).
dailyStats(js, fl, west) ==
    LET dates == {fl[i].date : i \in 1..Len(fl)}
    IN  [d \in dates |->
           LET dl == SelectSeq(fl, LAMBDA l : l.date = d)
           IN  [hours    |-> SumSeq([i \in 1..Len(dl) |-> dl[i].duration]),
                earnings |-> SumSeq([i \in 1..Len(dl) |->
                                        getLogValue(js, dl[i], west)]),
                count    |-> Len(dl)]]

\* CalendarView.selectedStats: null without a start, else the totals of the
\* filtered logs dated within [start, end || start].
selectedStats(js, fl, start, end, west) ==
    IF start = Null THEN Null
    ELSE LET rangeStart == start
             rangeEnd   == IF end # Null THEN end ELSE start
             rangeLogs  == SelectSeq(fl, LAMBDA l :
                               IsoLeq(rangeStart, l.date) /\ IsoLeq(l.date, rangeEnd))
         IN  [totalHours    |-> SumSeq([i \in 1..Len(rangeLogs) |->
                                           rangeLogs[i].duration]),
              totalEarnings |-> SumSeq([i \in 1..Len(rangeLogs) |->
                                           getLogValue(js, rangeLogs[i], west)])]

\* The days the calendar grid shows, over the months the user pages to:
\* days either side of a year boundary, a leap day, and a two-digit month.
CalDates ==
    {<<2023, 12, 30>>, <<2023, 12, 31>>, <<2024, 1, 1>>, <<2024, 1, 2>>,
     <<2024, 2, 29>>, <<2024, 10, 1>>}

\* isSelected with the end of the range left out.
isSelectedExclusive(dateStr, start, end) ==
    IF start = Null THEN FALSE
    ELSE IF end = Null THEN dateStr = start
    ELSE IsoLeq(start, dateStr) /\ IsoLess(dateStr, end)

\* CalendarView.isSelected
isSelected(dateStr, start, end) ==
    IF start = Null THEN FALSE
    ELSE IF end = Null THEN dateStr = start
    ELSE IsoLeq(start, dateStr) /\ IsoLeq(dateStr, end)

\* handleDateClick that takes the second click as the end whatever its order.
handleDateClickNoSwap(dateStr, start, end) ==
    IF start = Null \/ (start # Null /\ end # Null)
    THEN <<dateStr, Null>>
    ELSE <<start, dateStr>>

\* handleDateClick that starts afresh only from the empty selection, and
\* moves a bound of a selected range otherwise.
handleDateClickExtend(dateStr, start, end) ==
    IF start = Null
    THEN <<dateStr, Null>>
    ELSE IF IsoLess(dateStr, start)
         THEN <<dateStr, IF end # Null THEN end ELSE start>>
         ELSE <<start, dateStr>>

\* CalendarView.handleDateClick: the new <<selectStart, selectEnd>>.
handleDateClick(dateStr, start, end) ==
    IF start = Null \/ (start # Null /\ end # Null)
    THEN <<dateStr, Null>>
    ELSE IF IsoLess(dateStr, start)
         THEN <<dateStr, start>>
         ELSE <<start, dateStr>>

CalendarViewOf(js, ls, sel, start, end, west) ==
    LET fl == FilterByJob(ls, sel)
    IN  [view   |-> "calendar",
         selected |-> {d \in CalDates : isSelected(d, start, end)},
         logIds |-> [i \in 1..Len(fl) |-> fl[i].id],
         perLog |-> [i \in 1..Len(fl) |-> getLogValue(js, fl[i], west)],
         daily  |-> dailyStats(js, fl, west),
         range  |-> selectedStats(js, fl, start, end, west)]

\* DataManagement.handleExportCSV: one row per log (rate and earnings as
\* computed, before the row is formatted to text).
ExportRow(js, log, west) ==
    LET job       == FindJob(js, log.jobId)
        isWeekend == getDay(log.date, west) % 6 = 0
        rate      == IF job # Null
                     THEN (IF isWeekend THEN job.weekendHourlyRate
                                        ELSE job.hourlyRate)
                     ELSE 0
        earnings  == log.duration * rate
    IN  [date |-> log.date,
         jobName |-> IF job # Null THEN job.name ELSE "Unknown",
         duration |-> log.duration, rate |-> rate, earnings |-> earnings]

handleExportCSV(js, ls, west) ==
    [view   |-> "csv",
     logIds |-> [i \in 1..Len(ls) |-> ls[i].id],
     rows   |-> [i \in 1..Len(ls) |-> ExportRow(js, ls[i], west)],
     perLog |-> [i \in 1..Len(ls) |-> ExportRow(js, ls[i], west).earnings]]

\* new Date(iso).getFullYear(): the year of the date read in local time.
getFullYear(date, west) ==
    CivilFromDays(DaysFromCivil(date) - (IF west THEN 1 ELSE 0))[1]

\* Math.max(...years)
MaxOf(S) == CHOOSE x \in S : \A y \in S : y <= x

\* YearlyWrapUp.stats: null when there is no log; otherwise the totals of the
\* logs of the latest year. Object.keys(jobCounts).reduce(...) has no initial
\* value, so it throws a TypeError when no log of that year has a known job.
YearlyWrapUpStats(js, ls, west) ==
    IF Len(ls) = 0 THEN [view |-> "wrapup", kind |-> "null"]
    ELSE
      LET targetYear == MaxOf({getFullYear(ls[i].date, west) : i \in 1..Len(ls)})
          yearLogs   == SelectSeq(ls, LAMBDA l :
                            getFullYear(l.date, west) = targetYear)
          known      == SelectSeq(yearLogs, LAMBDA l : FindJob(js, l.jobId) # Null)
          jobCounts  == {known[i].jobId : i \in 1..Len(known)}
          earn(l)    == LET job == FindJob(js, l.jobId)
                            day == getDay(l.date, west)
                            isWeekend == day = 0 \/ day = 6
                            rate == IF isWeekend THEN job.weekendHourlyRate
                                                 ELSE job.hourlyRate
                        IN  l.duration * rate
      IN  IF jobCounts = {}
          THEN [view |-> "wrapup", kind |-> "TypeError"]
          ELSE [view |-> "wrapup", kind |-> "stats",
                targetYear    |-> targetYear,
                yearLogIds    |-> [i \in 1..Len(yearLogs) |-> yearLogs[i].id],
                totalHours    |-> SumSeq([i \in 1..Len(yearLogs) |->
                                             yearLogs[i].duration]),
                totalEarnings |-> SumSeq([i \in 1..Len(known) |-> earn(known[i])])]

---------------------------------------------------------------------------
(* Persistence: the save effect of App                                     *)

\* JSON.stringify({ logs, settings, jobs, templates }), as parsed back.
SavedState(ls, st, js, ts) ==
    [logs |-> ls, settings |-> st, jobs |-> js, templates |-> ts]

---------------------------------------------------------------------------
(* Sample data the specifications start from                               *)

JobA ==
    [id |-> 1, name |-> "Main Job", color |-> "#4F46E5",
     hourlyRate |-> 60, weekendHourlyRate |-> 70, targetHours |-> 1000,
     nextHourlyRate |-> 70, nextWeekendHourlyRate |-> 85]

JobB ==
    [id |-> 2, name |-> "Job 2", color |-> "#DB2777",
     hourlyRate |-> 40, weekendHourlyRate |-> 55, targetHours |-> 0,
     nextHourlyRate |-> 40, nextWeekendHourlyRate |-> 55]

\* A full 7-day sweep across a year boundary:
\* Sat 2023-12-30, Sun 2023-12-31, Mon 2024-01-01 ... Fri 2024-01-05.
SweepDates ==
    {<<2023, 12, 30>>, <<2023, 12, 31>>, <<2024, 1, 1>>, <<2024, 1, 2>>,
     <<2024, 1, 3>>, <<2024, 1, 4>>, <<2024, 1, 5>>}

\* Job ids the logs of the views' specification carry: the two jobs and an
\* id no job has (a dangling reference, as an imported file can hold).
ViewJobIds == {1, 2, 9}

\* The largest number of logs the views' specification starts with.
MaxViewLogs == 2

\* <<jobId, date, duration>> for every log the views' specification draws.
ViewLogShapes == ViewJobIds \X SweepDates \X {5000}

\* The states of the other components while a specification leaves them
\* alone.
CalIdle ==
    /\ selectStart = Null
    /\ selectEnd = Null
    /\ calSelectedJobId = AllJobs

VerIdle ==
    /\ verSelectedJobId = NoId
    /\ endDate = Null
    /\ periodLength = 14
    /\ slipWeekdayHours = 0
    /\ slipWeekendHours = 0
    /\ slipAllowances = 0

NothingRendered == [view |-> "none"]

\* new Date().toISOString().slice(0, 10) on the day of the run.
Today == <<2024, 3, 11>>

\* Dashboard as it mounts.
DashIdle == dashSelectedJobId = AllJobs

\* WorkLogger as it mounts over the jobs js: selectedJobId is
\* jobs[0]?.id || '', the times are 15:30 and 18:35.
LogIdle(js) ==
    /\ logSelectedJobId = (IF Len(js) > 0 THEN js[1].id ELSE NoId)
    /\ logDate = Today
    /\ mode = "range"
    /\ startTime = "15:30"
    /\ endTime = "18:35"
    /\ manualDuration = "8"
    /\ notes = ""

---------------------------------------------------------------------------
(* Views: the monetary values each view derives from the same logs         *)

InitViews ==
    /\ tzWest \in BOOLEAN
    /\ uuidCtr = 100
    /\ jobs = <<JobA, JobB>>
    /\ \E shapes \in SeqsOf(ViewLogShapes, 0, MaxViewLogs) :
         logs = [i \in 1..Len(shapes) |->
                   MkLog(i, shapes[i][1], shapes[i][2], "-", "-",
                         shapes[i][3], "")]
    /\ settings = DEFAULT_SETTINGS
    /\ templates = <<>>
    /\ isLoaded = TRUE
    /\ storage = SavedState(logs, settings, jobs, templates)
    /\ \E sel \in {<<Null, Null>>, <<<<2023, 12, 30>>, <<2024, 1, 5>>>>} :
         /\ selectStart = sel[1]
         /\ selectEnd = sel[2]
    /\ calSelectedJobId = AllJobs
    /\ VerIdle
    /\ rendered = NothingRendered
    /\ route = "/"
    /\ DashIdle
    /\ LogIdle(jobs)

\* The dashboard is shown with job filter sel.
RenderDashboard ==
    /\ \E sel \in {AllJobs} \cup {jobs[i].id : i \in 1..Len(jobs)} :
         rendered' = DashboardView(jobs, logs, sel, tzWest)
    /\ UNCHANGED <<dashVars, logVars, envVars, appVars, calVars, verVars>>

\* The calendar is shown.
RenderCalendar ==
    /\ rendered' = CalendarViewOf(jobs, logs, calSelectedJobId,
                                  selectStart, selectEnd, tzWest)
    /\ UNCHANGED <<dashVars, logVars, envVars, appVars, calVars, verVars>>

\* The CSV export is made.
ExportCSV ==
    /\ rendered' = handleExportCSV(jobs, logs, tzWest)
    /\ UNCHANGED <<dashVars, logVars, envVars, appVars, calVars, verVars>>

\* The yearly wrap-up is shown.
RenderWrapUp ==
    /\ rendered' = YearlyWrapUpStats(jobs, logs, tzWest)
    /\ UNCHANGED <<dashVars, logVars, envVars, appVars, calVars, verVars>>

NextViews ==
    \/ RenderDashboard
    \/ RenderCalendar
    \/ ExportCSV
    \/ RenderWrapUp

SpecViews == InitViews /\ [][NextViews]_vars

---------------------------------------------------------------------------
(* Claims C1, C2: rate resolution and dangling job references              *)

\* The rate the documentation gives a log: the job's weekend rate iff the
\* calendar day of the log's date is Sunday (0) or Saturday (6).
ExpectedRate(job, date) ==
    IF CalendarDayOfWeek(date) \in {0, 6}
    THEN job.weekendHourlyRate ELSE job.hourlyRate

ExpectedValue(js, log) ==
    IF FindJob(js, log.jobId) = Null THEN 0
    ELSE log.duration * ExpectedRate(FindJob(js, log.jobId), log.date)

LogById(id) == CHOOSE l \in Range(logs) : l.id = id

IsDangling(log) == FindJob(jobs, log.jobId) = Null

\* C1: for every job and date, every view values a log at duration x the
\* job's weekend rate iff the date's day of the week is Sunday or Saturday,
\* and at duration x the weekday rate otherwise; the dashboard, the
\* calendar, the CSV export and the yearly wrap-up so derive the same value.
C1_RateByCalendarDay ==
    /\ rendered.view \in {"dashboard", "calendar", "csv"} =>
         \A i \in 1..Len(rendered.logIds) :
            rendered.perLog[i] = ExpectedValue(jobs, LogById(rendered.logIds[i]))
    /\ rendered.view = "csv" =>
         \A i \in 1..Len(rendered.logIds) :
            LET log == LogById(rendered.logIds[i])
            IN  ~IsDangling(log) =>
                  rendered.rows[i].rate =
                      ExpectedRate(FindJob(jobs, log.jobId), log.date)
    /\ (rendered.view = "wrapup" /\ rendered.kind = "stats") =>
         rendered.totalEarnings =
            SumSeq([i \in 1..Len(rendered.yearLogIds) |->
                       ExpectedValue(jobs, LogById(rendered.yearLogIds[i]))])

\* C1 where the local time zone is not behind UTC.
C1_HoldsEastOfUTC == tzWest \/ C1_RateByCalendarDay

\* The sum of f over the indices i of 1..n that satisfy keep.
SumWhere(n, keep(_), f(_)) ==
    SumSeq([i \in 1..n |-> IF keep(i) THEN f(i) ELSE 0])

\* C2, the totals: a log whose jobId matches no job adds 0 to the current
\* earnings, the next-tier potential value, the calendar's daily and range
\* earnings and the export's earnings.
C2_TotalsIgnoreDangling ==
    LET n        == Len(rendered.logIds)
        log(i)   == LogById(rendered.logIds[i])
        known(i) == ~IsDangling(log(i))
        val(i)   == rendered.perLog[i]
    IN  /\ rendered.view \in {"dashboard", "calendar", "csv"} =>
             \A i \in 1..n : ~known(i) => val(i) = 0
        /\ rendered.view = "dashboard" =>
             /\ rendered.total = SumWhere(n, known, val)
             /\ rendered.potential =
                  SumWhere(n, known,
                           LAMBDA i : getLogNextEarnings(jobs, log(i), tzWest))
        /\ rendered.view = "calendar" =>
             /\ \A d \in DOMAIN rendered.daily :
                  rendered.daily[d].earnings =
                     SumWhere(n, LAMBDA i : known(i) /\ log(i).date = d, val)
             /\ rendered.range # Null =>
                  rendered.range.totalEarnings =
                     SumWhere(n, LAMBDA i : /\ known(i)
                                            /\ IsoLeq(selectStart, log(i).date)
                                            /\ IsoLeq(log(i).date, selectEnd), val)

\* C2: a log whose jobId matches no job contributes 0 to every monetary
\* total, and no aggregation fails because of it.
C2_DanglingNeverFatal ==
    /\ C2_TotalsIgnoreDangling
    /\ rendered.view = "wrapup" => rendered.kind # "TypeError"

---------------------------------------------------------------------------
(* CalendarView: the two-click range selector                              *)

\* The largest number of logs the calendar's specification starts with.
MaxCalLogs == 2

CalLogShapes == {1, 2, 9} \X {<<2023, 12, 31>>, <<2024, 1, 2>>} \X {5000}

InitCalendar ==
    /\ tzWest \in BOOLEAN
    /\ uuidCtr = 100
    /\ jobs = <<JobA, JobB>>
    /\ \E shapes \in SeqsOf(CalLogShapes, 0, MaxCalLogs) :
         logs = [i \in 1..Len(shapes) |->
                   MkLog(i, shapes[i][1], shapes[i][2], "-", "-",
                         shapes[i][3], "")]
    /\ settings = DEFAULT_SETTINGS
    /\ templates = <<>>
    /\ isLoaded = TRUE
    /\ storage = SavedState(logs, settings, jobs, templates)
    /\ CalIdle
    /\ VerIdle
    /\ rendered = CalendarViewOf(jobs, logs, calSelectedJobId,
                                 selectStart, selectEnd, tzWest)
    /\ route = "/calendar"
    /\ DashIdle
    /\ LogIdle(jobs)

\* A click on day dateStr of the grid, and the render that follows.
HandleDateClick(dateStr) ==
    /\ selectStart' = handleDateClick(dateStr, selectStart, selectEnd)[1]
    /\ selectEnd' = handleDateClick(dateStr, selectStart, selectEnd)[2]
    /\ rendered' = CalendarViewOf(jobs, logs, calSelectedJobId,
                                  selectStart', selectEnd', tzWest)
    /\ UNCHANGED <<dashVars, logVars, envVars, appVars, calSelectedJobId, verVars>>

\* The X button of the floating summary, shown only while a start is set.
ClearSelection ==
    /\ selectStart # Null
    /\ selectStart' = Null
    /\ selectEnd' = Null
    /\ rendered' = CalendarViewOf(jobs, logs, calSelectedJobId,
                                  Null, Null, tzWest)
    /\ UNCHANGED <<dashVars, logVars, envVars, appVars, calSelectedJobId, verVars>>

\* The job filter of the calendar.
CalSelectJob(sel) ==
    /\ sel # calSelectedJobId
    /\ calSelectedJobId' = sel
    /\ rendered' = CalendarViewOf(jobs, logs, sel, selectStart, selectEnd, tzWest)
    /\ UNCHANGED <<dashVars, logVars, envVars, appVars, selectStart, selectEnd, verVars>>

ClickSomeDate == \E d \in CalDates : HandleDateClick(d)

SelectSomeCalJob ==
    \E sel \in {AllJobs} \cup {jobs[i].id : i \in 1..Len(jobs)} : CalSelectJob(sel)

NextCalendar ==
    \/ ClickSomeDate
    \/ ClearSelection
    \/ SelectSomeCalJob

SpecCalendar == InitCalendar /\ [][NextCalendar]_vars

\* The selector's states.
SelEmpty == selectStart = Null
SelSingle == selectStart # Null /\ selectEnd = Null
SelRange == selectStart # Null /\ selectEnd # Null

\* C7: whatever dates are clicked and whenever the selection is cleared, if
\* end is set then start is set and start <= end in the order of the ISO
\* strings; clicking s and then a date d < s yields start = d and end = s.
C7_RangeNormalized ==
    [][ /\ selectEnd' # Null =>
             selectStart' # Null /\ IsoLeq(selectStart', selectEnd')
        /\ \A d \in CalDates :
             (SelSingle /\ IsoLess(d, selectStart) /\ HandleDateClick(d)) =>
                 (selectStart' = d /\ selectEnd' = selectStart) ]_vars

\* A range whose start is strictly before its end has been selected.
C7_Witness == SelRange /\ IsoLess(selectStart, selectEnd)

\* C8: a click on d while Empty or RangeSelected sets start = d and clears
\* end; a click while SingleSelected gives RangeSelected; and Empty is
\* re-entered only by the clear-selection action.
C8_ClickCycle ==
    [][ /\ \A d \in CalDates :
             HandleDateClick(d) =>
                /\ (SelEmpty \/ SelRange) =>
                      (selectStart' = d /\ selectEnd' = Null)
                /\ SelSingle => (selectStart' # Null /\ selectEnd' # Null)
        /\ (~SelEmpty /\ selectStart' = Null) => ClearSelection ]_vars

\* A single day is selected while the calendar shows it alone highlighted.
C8_Witness == SelSingle /\ rendered.selected = {selectStart}

\* C9: for every selector state and every date d, the membership test is
\* true iff start is set and start <= d <= (end if set, otherwise start);
\* the range statistics count exactly the filtered logs that pass it.
C9_Membership ==
    LET upper == IF selectEnd # Null THEN selectEnd ELSE selectStart
        in(d) == /\ selectStart # Null
                 /\ IsoLeq(selectStart, d)
                 /\ IsoLeq(d, upper)
        fl    == FilterByJob(logs, calSelectedJobId)
    IN  /\ \A d \in CalDates : isSelected(d, selectStart, selectEnd) <=> in(d)
        /\ rendered.selected = {d \in CalDates : in(d)}
        /\ selectStart = Null => rendered.range = Null
        /\ selectStart # Null =>
             rendered.range.totalHours =
                SumWhere(Len(fl), LAMBDA i : in(fl[i].date),
                         LAMBDA i : fl[i].duration)

\* A range is selected with a day strictly inside it, a day outside it, and
\* a log counted in its statistics.
C9_Witness ==
    /\ SelRange
    /\ \E d \in rendered.selected : d # selectStart /\ d # selectEnd
    /\ rendered.selected # CalDates
    /\ rendered.range.totalHours > 0

---------------------------------------------------------------------------
(* PayslipVerifier: reconciliation against a payslip                       *)

\* DiffRow: a difference is in tolerance up to 0.1 h in magnitude.
Tolerance == 100

\* |x|
Abs(x) == IF x < 0 THEN -x ELSE x

\* parseFloat(x.toFixed(2)) for x in thousandths: the nearest multiple of
\* 0.01. toFixed rounds the binary double that x really is, so a value that
\* reads as an exact half (..5 thousandths) goes to either neighbour.
ToFixed2(x) ==
    LET lo == (x \div 10) * 10
    IN  IF x % 10 = 0 THEN {x}
        ELSE IF x % 10 < 5 THEN {lo}
        ELSE IF x % 10 > 5 THEN {lo + 10}
        ELSE {lo, lo + 10}

\* PayslipVerifier.activeJob
activeJob == FindJob(jobs, verSelectedJobId)

\* PayslipVerifier.appStats (null without an active job)
appStats ==
    IF activeJob = Null THEN Null
    ELSE
      LET days       == periodLength
          startStr   == CivilFromDays(DaysFromCivil(endDate) - (days - 1))
          endStr     == endDate
          periodLogs == SelectSeq(logs, LAMBDA l :
                            /\ IsoLeq(startStr, l.date)
                            /\ IsoLeq(l.date, endStr)
                            /\ l.jobId = activeJob.id)
          isWeekend(l) == LET day == getDay(l.date, tzWest)
                          IN  day = 0 \/ day = 6
          weekdayHours == SumSeq([i \in 1..Len(periodLogs) |->
                              IF isWeekend(periodLogs[i]) THEN 0
                              ELSE periodLogs[i].duration])
          weekendHours == SumSeq([i \in 1..Len(periodLogs) |->
                              IF isWeekend(periodLogs[i])
                              THEN periodLogs[i].duration ELSE 0])
      IN  [startStr |-> startStr, endStr |-> endStr,
           periodLogIds |-> [i \in 1..Len(periodLogs) |-> periodLogs[i].id],
           weekdayHours |-> weekdayHours, weekendHours |-> weekendHours,
           estimatedBasePay |-> weekdayHours * activeJob.hourlyRate
                                + weekendHours * activeJob.weekendHourlyRate]

\* The gross pay the specification gives the app side: no allowance.
appTotalGrossWithoutAllowance == appStats.estimatedBasePay

\* PayslipVerifier.appTotalGross
appTotalGross == appStats.estimatedBasePay + slipAllowances * 1000

\* PayslipVerifier.slipTotalGross
slipTotalGross ==
    slipWeekdayHours * activeJob.hourlyRate
    + slipWeekendHours * activeJob.weekendHourlyRate
    + slipAllowances * 1000

diffWeekday == slipWeekdayHours - appStats.weekdayHours
diffWeekend == slipWeekendHours - appStats.weekendHours
diffPay == slipTotalGross - appTotalGross

HourTypes == {"weekday", "weekend"}

DiffOf(type) == IF type = "weekday" THEN diffWeekday ELSE diffWeekend

\* DiffRow with the tolerance test inclusive (>=, <=).
DiffRowInclusive(diff) ==
    IF diff >= Tolerance THEN "backfill"
    ELSE IF diff <= -Tolerance THEN "correction"
    ELSE "none"

\* DiffRow: the button a difference row shows (isUnder: backfill, isOver:
\* correction, isOk: none).
DiffRow(diff) ==
    LET isOver  == diff < -Tolerance
        isUnder == diff > Tolerance
    IN  IF isUnder THEN "backfill"
        ELSE IF isOver THEN "correction"
        ELSE "none"

\* The verifier renders its rows only with an active job, and a row shows a
\* remediation button only when DiffRow says so.
AutoFillOffered(type) ==
    /\ activeJob # Null
    /\ DiffRow(DiffOf(type)) # "none"

\* handleAutoFill's log with the difference itself as its duration.
AutoFillLogUnrounded(type, id, duration) ==
    MkLog(id, verSelectedJobId, endDate, "-", "-", DiffOf(type),
          IF DiffOf(type) > 0
          THEN (IF type = "weekday" THEN "Payslip Backfill (weekday)"
                                    ELSE "Payslip Backfill (weekend)")
          ELSE (IF type = "weekday" THEN "Payslip Correction (weekday)"
                                    ELSE "Payslip Correction (weekend)"))

\* handleAutoFill.newLog, with duration = parseFloat(diff.toFixed(2)).
AutoFillLog(type, id, duration) ==
    MkLog(id, verSelectedJobId, endDate, "-", "-", duration,
          IF DiffOf(type) > 0
          THEN (IF type = "weekday" THEN "Payslip Backfill (weekday)"
                                    ELSE "Payslip Backfill (weekend)")
          ELSE (IF type = "weekday" THEN "Payslip Correction (weekday)"
                                    ELSE "Payslip Correction (weekend)"))

\* The largest number of logs the verifier's specification starts with.
MaxVerLogs == 2

\* The period-end dates tried: Sunday 2024-03-10 and Monday 2024-03-11.
EndDates == {<<2024, 3, 10>>, <<2024, 3, 11>>}

\* Log dates at the edges of the windows of those ends: Sat 2024-02-10 (the
\* first of the 30 days to 03-10, before the 30 days to 03-11), Mon 02-26
\* (the first of the 14 days to 03-10, before the 14 days to 03-11) and
\* Mon 03-11 (after 03-10).
VerLogDates == {<<2024, 2, 10>>, <<2024, 2, 26>>, <<2024, 3, 11>>}

VerLogShapes == {1, 2} \X VerLogDates \X {1000}

PeriodLengths == {14, 30}
SlipWeekdayInputs == {0, 890, 900, 1000, 1100, 1110}
SlipWeekendInputs == {0, 1105}
SlipAllowanceInputs == {0, 50}

InitVerifier ==
    /\ tzWest \in BOOLEAN
    /\ uuidCtr = 100
    /\ jobs = <<JobA, JobB>>
    /\ \E shapes \in SeqsOf(VerLogShapes, 0, MaxVerLogs) :
         logs = [i \in 1..Len(shapes) |->
                   MkLog(i, shapes[i][1], shapes[i][2], "-", "-",
                         shapes[i][3], "")]
    /\ settings = DEFAULT_SETTINGS
    /\ templates = <<>>
    /\ isLoaded = TRUE
    /\ storage = SavedState(logs, settings, jobs, templates)
    /\ CalIdle
    /\ verSelectedJobId = jobs[1].id
    /\ endDate \in EndDates
    /\ periodLength = 14
    /\ slipWeekdayHours = 0
    /\ slipWeekendHours = 0
    /\ slipAllowances = 0
    /\ rendered = NothingRendered
    /\ route = "/verify"
    /\ DashIdle
    /\ LogIdle(jobs)

VerSelectJob(id) ==
    /\ id # verSelectedJobId
    /\ verSelectedJobId' = id
    /\ UNCHANGED <<dashVars, logVars, envVars, appVars, calVars, endDate, periodLength,
                   slipWeekdayHours, slipWeekendHours, slipAllowances, rendered>>

SetEndDate(d) ==
    /\ d # endDate
    /\ endDate' = d
    /\ UNCHANGED <<dashVars, logVars, envVars, appVars, calVars, verSelectedJobId, periodLength,
                   slipWeekdayHours, slipWeekendHours, slipAllowances, rendered>>

SetPeriodLength(p) ==
    /\ p # periodLength
    /\ periodLength' = p
    /\ UNCHANGED <<dashVars, logVars, envVars, appVars, calVars, verSelectedJobId, endDate,
                   slipWeekdayHours, slipWeekendHours, slipAllowances, rendered>>

SetSlipWeekdayHours(h) ==
    /\ h # slipWeekdayHours
    /\ slipWeekdayHours' = h
    /\ UNCHANGED <<dashVars, logVars, envVars, appVars, calVars, verSelectedJobId, endDate,
                   periodLength, slipWeekendHours, slipAllowances, rendered>>

SetSlipWeekendHours(h) ==
    /\ h # slipWeekendHours
    /\ slipWeekendHours' = h
    /\ UNCHANGED <<dashVars, logVars, envVars, appVars, calVars, verSelectedJobId, endDate,
                   periodLength, slipWeekdayHours, slipAllowances, rendered>>

SetSlipAllowances(a) ==
    /\ a # slipAllowances
    /\ slipAllowances' = a
    /\ UNCHANGED <<dashVars, logVars, envVars, appVars, calVars, verSelectedJobId, endDate,
                   periodLength, slipWeekdayHours, slipWeekendHours, rendered>>

\* App.handleAddLog, and the save effect that follows the state change.
handleAddLog(log) ==
    /\ logs' = <<log>> \o logs
    /\ storage' = SavedState(logs', settings, jobs, templates)
    /\ UNCHANGED <<jobs, settings, templates, isLoaded>>

\* The largest number of remediations applied in a run.
MaxAutoFills == 1

\* A log that handleAutoFill made.
IsRemediation(l) ==
    l.notes \in {"Payslip Backfill (weekday)", "Payslip Backfill (weekend)",
                 "Payslip Correction (weekday)", "Payslip Correction (weekend)"}

\* A click on the button of a difference row: handleAutoFill(type).
handleAutoFill(type) ==
    /\ AutoFillOffered(type)
    /\ ~(Abs(DiffOf(type)) <= 0)
    /\ Len(SelectSeq(logs, IsRemediation)) < MaxAutoFills
    /\ \E duration \in ToFixed2(DiffOf(type)) :
         handleAddLog(AutoFillLog(type, uuidCtr, duration))
    /\ uuidCtr' = uuidCtr + 1
    /\ UNCHANGED <<dashVars, logVars, tzWest, calVars, verVars, rendered>>

SelectSomeVerJob == \E i \in 1..Len(jobs) : VerSelectJob(jobs[i].id)
ChangeEndDate == \E d \in EndDates : SetEndDate(d)
ChangePeriodLength == \E p \in PeriodLengths : SetPeriodLength(p)
TypeSlipWeekdayHours == \E h \in SlipWeekdayInputs : SetSlipWeekdayHours(h)
TypeSlipWeekendHours == \E h \in SlipWeekendInputs : SetSlipWeekendHours(h)
TypeSlipAllowances == \E a \in SlipAllowanceInputs : SetSlipAllowances(a)
ClickAutoFill == \E type \in HourTypes : handleAutoFill(type)

NextVerifier ==
    \/ SelectSomeVerJob
    \/ ChangeEndDate
    \/ ChangePeriodLength
    \/ TypeSlipWeekdayHours
    \/ TypeSlipWeekendHours
    \/ TypeSlipAllowances

SpecVerifier == InitVerifier /\ [][NextVerifier]_vars

\* Remediation: the payslip figures are typed for the 14 days to endDate
\* of the first job, and the buttons of the difference rows are clicked.
InitAutoFill ==
    /\ tzWest \in BOOLEAN
    /\ uuidCtr = 100
    /\ jobs = <<JobA, JobB>>
    /\ \E shapes \in SeqsOf(VerLogShapes, 0, 1) :
         logs = [i \in 1..Len(shapes) |->
                   MkLog(i, shapes[i][1], shapes[i][2], "-", "-",
                         shapes[i][3], "")]
    /\ settings = DEFAULT_SETTINGS
    /\ templates = <<>>
    /\ isLoaded = TRUE
    /\ storage = SavedState(logs, settings, jobs, templates)
    /\ CalIdle
    /\ verSelectedJobId = jobs[1].id
    /\ endDate \in EndDates
    /\ periodLength = 14
    /\ slipWeekdayHours = 0
    /\ slipWeekendHours = 0
    /\ slipAllowances = 0
    /\ rendered = NothingRendered
    /\ route = "/verify"
    /\ DashIdle
    /\ LogIdle(jobs)

NextAutoFill ==
    \/ TypeSlipWeekdayHours
    \/ TypeSlipWeekendHours
    \/ ChangeEndDate
    \/ ClickAutoFill

SpecAutoFill == InitAutoFill /\ [][NextAutoFill]_vars

---------------------------------------------------------------------------
(* Claims C3 .. C6: reconciliation                                         *)

\* The hours of the logs of the selected job dated, by day count, within
\* the periodLength days ending at endDate, that fall on a weekend (or not)
\* by the calendar day of their date.
WindowHours(weekend) ==
    LET last  == DaysFromCivil(endDate)
        first == last - (periodLength - 1)
        counts(l) == /\ l.jobId = verSelectedJobId
                     /\ first <= DaysFromCivil(l.date)
                     /\ DaysFromCivil(l.date) <= last
                     /\ (CalendarDayOfWeek(l.date) \in {0, 6}) = weekend
    IN  SumWhere(Len(logs), LAMBDA i : counts(logs[i]),
                 LAMBDA i : logs[i].duration)

\* Slip gross and app gross by the formulas of the documentation.
SlipGrossByFormula ==
    slipWeekdayHours * activeJob.hourlyRate
    + slipWeekendHours * activeJob.weekendHourlyRate + slipAllowances * 1000

AppBaseByFormula ==
    appStats.weekdayHours * activeJob.hourlyRate
    + appStats.weekendHours * activeJob.weekendHourlyRate

SlipHoursEqualAppHours ==
    /\ slipWeekdayHours = appStats.weekdayHours
    /\ slipWeekendHours = appStats.weekendHours

\* C3 as stated: the gross difference is slip gross minus an app gross that
\* holds no allowance, so with equal hours it is the allowance.
C3_GrossDiffWithoutAllowance ==
    activeJob # Null =>
       /\ diffPay = SlipGrossByFormula - AppBaseByFormula
       /\ SlipHoursEqualAppHours => diffPay = slipAllowances * 1000

\* C3 as the code has it: the allowance is added to the app gross as well,
\* so the gross difference is the difference of the hour-based pay alone,
\* and with equal hours it is 0 whatever the allowance.
C3_GrossDiffOfHoursOnly ==
    activeJob # Null =>
       /\ diffPay = SlipGrossByFormula
                      - (AppBaseByFormula + slipAllowances * 1000)
       /\ diffPay = (slipWeekdayHours - appStats.weekdayHours)
                        * activeJob.hourlyRate
                    + (slipWeekendHours - appStats.weekendHours)
                        * activeJob.weekendHourlyRate
       /\ SlipHoursEqualAppHours => diffPay = 0

\* The slip repeats the app's hours, which are not zero, with an allowance.
C3_Witness ==
    /\ activeJob # Null
    /\ SlipHoursEqualAppHours
    /\ slipWeekdayHours > 0
    /\ slipAllowances > 0

\* C4 as stated: a remediation adds one log of the selected job, dated
\* endDate, whose duration is the difference itself.
C4_RemediationLogExact ==
    [][ logs' # logs =>
          \E type \in HourTypes :
             /\ Len(logs') = Len(logs) + 1
             /\ Tail(logs') = logs
             /\ Head(logs').jobId = verSelectedJobId
             /\ Head(logs').date = endDate
             /\ Head(logs').duration = DiffOf(type)
             /\ jobs' = jobs ]_vars

\* C4 as the code has it: a remediation adds exactly one log, at the head
\* of the list, with jobId = the selected job, date = endDate and duration
\* = the signed difference (slip - app) of the hour type rounded to two
\* decimals; its note says Backfill for a positive difference, Correction
\* for a negative one, and names the hour type; the logs there were and the
\* jobs are unchanged.
C4_RemediationLog ==
    [][ logs' # logs =>
          \E type \in HourTypes :
             LET d   == DiffOf(type)
                 new == Head(logs')
             IN  /\ Abs(d) > 100
                 /\ Len(logs') = Len(logs) + 1
                 /\ Tail(logs') = logs
                 /\ new.jobId = verSelectedJobId
                 /\ new.date = endDate
                 /\ new.duration % 10 = 0
                 /\ Abs(new.duration - d) <= 5
                 /\ (d > 0) = (new.duration > 0)
                 /\ d > 0 => new.notes = (IF type = "weekday"
                                          THEN "Payslip Backfill (weekday)"
                                          ELSE "Payslip Backfill (weekend)")
                 /\ d < 0 => new.notes = (IF type = "weekday"
                                          THEN "Payslip Correction (weekday)"
                                          ELSE "Payslip Correction (weekend)")
                 /\ jobs' = jobs ]_vars

\* A correction (negative duration) has been added in front of a log that
\* was there before.
C4_Witness ==
    /\ Len(logs) = 2
    /\ IsRemediation(logs[1])
    /\ ~IsRemediation(logs[2])
    /\ logs[1].duration < 0
    /\ logs[1].notes = "Payslip Correction (weekday)"

C6_WindowTotals ==
    activeJob # Null =>
       /\ appStats.weekdayHours = WindowHours(FALSE)
       /\ appStats.weekendHours = WindowHours(TRUE)

\* C6 where the local time zone is not behind UTC.
C6_HoldsEastOfUTC == tzWest \/ C6_WindowTotals

---------------------------------------------------------------------------
(* App: the load effect, with its migration, and the save effect           *)

\* An item of localStorage that JSON.parse rejects, or whose value is not an
\* object (reading parsed.jobs throws).
Unparsable == [unparsable |-> TRUE]

\* obj.field || fallback, for an array or object field that may be absent.
FieldOr(obj, field, fallback) ==
    IF field \in DOMAIN obj THEN obj[field] ELSE fallback

\* A numeric field that is absent or 0 is falsy.
Falsy(obj, field) == field \notin DOMAIN obj \/ obj[field] = 0

\* { ...a, ...b }
Spread(a, b) ==
    [k \in DOMAIN a \cup DOMAIN b |-> IF k \in DOMAIN b THEN b[k] ELSE a[k]]

\* The state useState gives App before the load effect has run.
FreshState ==
    [logs |-> <<>>, jobs |-> <<>>, settings |-> DEFAULT_SETTINGS,
     templates |-> <<>>]

\* The Main Job the load effect makes from the legacy settings.
MainJobOf(oldSettings, uuid) ==
    [DEFAULT_JOB EXCEPT
       !.id = uuid,
       !.name = "Main Job",
       !.hourlyRate =
          IF ~Falsy(oldSettings, "hourlyRate") THEN oldSettings.hourlyRate
          ELSE DEFAULT_JOB.hourlyRate,
       !.weekendHourlyRate =
          IF ~Falsy(oldSettings, "weekendHourlyRate")
          THEN oldSettings.weekendHourlyRate
          ELSE IF ~Falsy(oldSettings, "hourlyRate") THEN oldSettings.hourlyRate
          ELSE DEFAULT_JOB.weekendHourlyRate,
       !.targetHours =
          IF ~Falsy(oldSettings, "targetHours") THEN oldSettings.targetHours
          ELSE DEFAULT_JOB.targetHours,
       !.nextHourlyRate =
          IF ~Falsy(oldSettings, "nextHourlyRate")
          THEN oldSettings.nextHourlyRate
          ELSE DEFAULT_JOB.nextHourlyRate,
       !.nextWeekendHourlyRate =
          IF ~Falsy(oldSettings, "nextWeekendHourlyRate")
          THEN oldSettings.nextWeekendHourlyRate
          ELSE IF ~Falsy(oldSettings, "nextHourlyRate")
               THEN oldSettings.nextHourlyRate
          ELSE DEFAULT_JOB.nextWeekendHourlyRate]

\* An assignment that gives every log, assigned or not, the new job's id.
AssignAllLogs(ls, jobId) ==
    [i \in 1..Len(ls) |-> [ls[i] EXCEPT !.jobId = jobId]]

\* currentLogs.map(log => ({ ...log, jobId: log.jobId || mainJob.id }))
AssignLogs(ls, jobId) ==
    [i \in 1..Len(ls) |->
        [ls[i] EXCEPT !.jobId = IF ls[i].jobId # NoId THEN ls[i].jobId
                                ELSE jobId]]

\* The migration that runs whether or not jobs exist.
MigrateAlways(parsed, uuid) ==
    LET currentLogs == FieldOr(parsed, "logs", <<>>)
    IN  IF "settings" \notin DOMAIN parsed
        THEN [ok |-> FALSE, state |-> FreshState, madeJob |-> FALSE]
        ELSE [ok |-> TRUE, madeJob |-> TRUE,
              state |->
                [logs |-> AssignLogs(currentLogs, uuid),
                 jobs |-> FieldOr(parsed, "jobs", <<>>)
                            \o <<MainJobOf(parsed.settings, uuid)>>,
                 settings |-> Spread(DEFAULT_SETTINGS, parsed.settings),
                 templates |-> FieldOr(parsed, "templates", <<>>)]]

\* A load effect that lets a legacy hourlyRate of the settings override the
\* weekday rate of the first job of a blob that has jobs.
MigrateLegacyOverrides(parsed, uuid) ==
    LET currentJobs      == FieldOr(parsed, "jobs", <<>>)
        currentLogs      == FieldOr(parsed, "logs", <<>>)
        currentSettings  == Spread(DEFAULT_SETTINGS,
                                   FieldOr(parsed, "settings", <<>>))
        currentTemplates == FieldOr(parsed, "templates", <<>>)
    IN  IF Len(currentJobs) = 0
        THEN IF "settings" \notin DOMAIN parsed
             THEN [ok |-> FALSE, state |-> FreshState, madeJob |-> FALSE]
             ELSE [ok |-> TRUE, madeJob |-> TRUE,
                   state |->
                     [logs |-> AssignLogs(currentLogs, uuid),
                      jobs |-> <<MainJobOf(parsed.settings, uuid)>>,
                      settings |-> currentSettings,
                      templates |-> currentTemplates]]
        ELSE [ok |-> TRUE, madeJob |-> FALSE,
              state |->
                [logs |-> currentLogs,
                 jobs |-> [currentJobs EXCEPT
                             ![1].hourlyRate =
                                IF ~Falsy(currentSettings, "hourlyRate")
                                THEN currentSettings.hourlyRate
                                ELSE @],
                 settings |-> currentSettings,
                 templates |-> currentTemplates]]

\* The try block of the load effect on a parsed blob: ok is FALSE when it
\* throws (no settings to read the legacy fields from), and then nothing
\* has been set.
Migrate(parsed, uuid) ==
    LET currentJobs      == FieldOr(parsed, "jobs", <<>>)
        currentLogs      == FieldOr(parsed, "logs", <<>>)
        currentSettings  == Spread(DEFAULT_SETTINGS,
                                   FieldOr(parsed, "settings", <<>>))
        currentTemplates == FieldOr(parsed, "templates", <<>>)
    IN  IF Len(currentJobs) = 0
        THEN IF "settings" \notin DOMAIN parsed
             THEN [ok |-> FALSE, state |-> FreshState, madeJob |-> FALSE]
             ELSE [ok |-> TRUE, madeJob |-> TRUE,
                   state |->
                     [logs |-> AssignLogs(currentLogs, uuid),
                      jobs |-> <<MainJobOf(parsed.settings, uuid)>>,
                      settings |-> currentSettings,
                      templates |-> currentTemplates]]
        ELSE [ok |-> TRUE, madeJob |-> FALSE,
              state |-> [logs |-> currentLogs, jobs |-> currentJobs,
                         settings |-> currentSettings,
                         templates |-> currentTemplates]]

\* A load effect that sets the logs and the templates of the blob before it
\* fails on the missing settings.
LoadResultPartial(saved, uuid) ==
    IF saved = Null
    THEN [ok |-> TRUE, madeJob |-> TRUE,
          state |-> [FreshState EXCEPT
                       !.jobs = <<[DEFAULT_JOB EXCEPT !.id = uuid]>>]]
    ELSE IF saved = Unparsable
    THEN [ok |-> FALSE, state |-> FreshState, madeJob |-> FALSE]
    ELSE IF Migrate(saved, uuid).ok THEN Migrate(saved, uuid)
    ELSE [ok |-> FALSE, madeJob |-> FALSE,
          state |-> [FreshState EXCEPT
                       !.logs = FieldOr(saved, "logs", <<>>),
                       !.templates = FieldOr(saved, "templates", <<>>)]]

\* The load effect on the stored item.
LoadResult(saved, uuid) ==
    IF saved = Null
    THEN [ok |-> TRUE, madeJob |-> TRUE,
          state |-> [FreshState EXCEPT
                       !.jobs = <<[DEFAULT_JOB EXCEPT !.id = uuid]>>]]
    ELSE IF saved = Unparsable
    THEN [ok |-> FALSE, state |-> FreshState, madeJob |-> FALSE]
    ELSE Migrate(saved, uuid)

\* What localStorage may hold when the app starts: nothing, an item that
\* does not parse, blobs of the format before jobs existed, and blobs of
\* the current format; each field of a blob may be missing.
StoredJobs == { {}, {<<>>}, {<<JobA>>}, {<<JobA, JobB>>} }

StoredLogs ==
    { {}, {<<>>},
      {<<MkLog(1, NoId, <<2024, 1, 1>>, "-", "-", 8000, "")>>},
      {<<MkLog(1, NoId, <<2024, 1, 1>>, "-", "-", 8000, ""),
         MkLog(2, 1, <<2023, 12, 30>>, "-", "-", 4000, "")>>},
      {<<MkLog(1, 9, <<2024, 1, 1>>, "-", "-", 8000, ""),
         MkLog(2, NoId, <<2023, 12, 30>>, "-", "-", 4000, "")>>} }

StoredSettings ==
    { {}, {DEFAULT_SETTINGS},
      {[hourlyRate |-> 50, targetHours |-> 500]},
      {[hourlyRate |-> 0, weekendHourlyRate |-> 80, nextHourlyRate |-> 90,
        currency |-> "USD"]},
      {[currency |-> "USD", hourlyRate |-> 50, weekendHourlyRate |-> 65,
        targetHours |-> 0, nextHourlyRate |-> 0,
        nextWeekendHourlyRate |-> 75]} }

\* A ShiftTemplate.
MkTemplate(id, name, jobId, from, to, text) ==
    [id |-> id, name |-> name, jobId |-> jobId, startTime |-> from,
     endTime |-> to, notes |-> text]

StoredTemplates ==
    { {}, {<<>>}, {<<MkTemplate(7, "Early", 1, "15:30", "18:35", "")>>} }

Only(S) == CHOOSE x \in S : TRUE

BlobOf(J, L, S, T) ==
    LET keys == (IF J = {} THEN {} ELSE {"jobs"})
                  \cup (IF L = {} THEN {} ELSE {"logs"})
                  \cup (IF S = {} THEN {} ELSE {"settings"})
                  \cup (IF T = {} THEN {} ELSE {"templates"})
    IN  [k \in keys |->
           CASE k = "jobs" -> Only(J)
             [] k = "logs" -> Only(L)
             [] k = "settings" -> Only(S)
             [] k = "templates" -> Only(T)]

StoredBlobs ==
    { BlobOf(J, L, S, T) :
        J \in StoredJobs, L \in StoredLogs, S \in StoredSettings,
        T \in StoredTemplates } \ {Null}

InitLoad ==
    /\ tzWest = FALSE
    /\ uuidCtr = 100
    /\ logs = FreshState.logs
    /\ jobs = FreshState.jobs
    /\ settings = FreshState.settings
    /\ templates = FreshState.templates
    /\ isLoaded = FALSE
    /\ storage \in {Null, Unparsable} \cup StoredBlobs
    /\ CalIdle
    /\ VerIdle
    /\ rendered = NothingRendered
    /\ route = "/"
    /\ DashIdle
    /\ LogIdle(jobs)

\* The load effect on mount, then the save effect that the change of
\* isLoaded (and of the state) fires.
LoadEffect ==
    /\ ~isLoaded
    /\ LET r == LoadResult(storage, uuidCtr)
       IN  /\ logs' = r.state.logs
           /\ jobs' = r.state.jobs
           /\ settings' = r.state.settings
           /\ templates' = r.state.templates
           /\ uuidCtr' = IF r.madeJob THEN uuidCtr + 1 ELSE uuidCtr
           /\ storage' = SavedState(r.state.logs, r.state.settings,
                                    r.state.jobs, r.state.templates)
    /\ isLoaded' = TRUE
    /\ UNCHANGED <<dashVars, logVars, tzWest, calVars, verVars, rendered>>

\* The page is opened again: the component state starts afresh, the stored
\* item stays.
Reload ==
    /\ isLoaded
    /\ logs' = FreshState.logs
    /\ jobs' = FreshState.jobs
    /\ settings' = FreshState.settings
    /\ templates' = FreshState.templates
    /\ isLoaded' = FALSE
    /\ UNCHANGED <<dashVars, logVars, envVars, storage, calVars, verVars, rendered>>

NextLoad == LoadEffect \/ Reload

SpecLoad == InitLoad /\ [][NextLoad]_vars

\* State of the app as one record.
AppState ==
    [logs |-> logs, jobs |-> jobs, settings |-> settings,
     templates |-> templates]

\* C10: migration is idempotent. A load whose migration completes leaves a
\* stored state on which the next load changes nothing and makes no job;
\* and a load of a blob whose jobs are not empty adds and changes no job
\* and changes no log (so no log's jobId).
C10_MigrationIdempotent ==
    [][(~isLoaded /\ isLoaded' /\ LoadResult(storage, uuidCtr).ok)
         => /\ LoadResult(storage', uuidCtr').ok
            /\ LoadResult(storage', uuidCtr').state = AppState'
            /\ ~LoadResult(storage', uuidCtr').madeJob
            /\ (Len(FieldOr(storage, "jobs", <<>>)) > 0
                  => /\ jobs' = storage.jobs
                     /\ logs' = FieldOr(storage, "logs", <<>>))]_vars

\* A migration has made the Main Job from legacy settings, given it to the
\* unassigned log and left the assigned log alone; the state is stored.
C10_Witness ==
    /\ isLoaded
    /\ Len(jobs) = 1 /\ jobs[1].id = 100 /\ jobs[1].hourlyRate = 50
    /\ Len(logs) = 2 /\ logs[1].jobId = 9 /\ logs[2].jobId = 100
    /\ storage = SavedState(logs, settings, jobs, templates)

---------------------------------------------------------------------------
(* Load-time migration: C11, C12, C13                                      *)

\* A step of the load effect.
LoadStep == ~isLoaded /\ isLoaded'

\* The stored item parses to a blob without jobs from which the load effect
\* can make the Main Job (it has the settings object the effect reads).
LegacyBlob(saved) ==
    /\ "settings" \in DOMAIN saved
    /\ Len(FieldOr(saved, "jobs", <<>>)) = 0

LegacyFields ==
    {"hourlyRate", "weekendHourlyRate", "targetHours", "nextHourlyRate",
     "nextWeekendHourlyRate"}

\* C11: when the load effect migrates a blob without jobs, each log without
\* a jobId gets the id of the job that was made, each log with a jobId keeps
\* it, no other field of a log changes and no log is added or dropped.
C11_OnlyUnassignedLogsAssigned ==
    [][(LoadStep /\ LegacyBlob(storage))
         => LET old == FieldOr(storage, "logs", <<>>)
            IN  /\ Len(jobs') = 1
                /\ Len(logs') = Len(old)
                /\ \A i \in 1..Len(old) :
                     /\ logs'[i].jobId = IF old[i].jobId = NoId
                                         THEN jobs'[1].id
                                         ELSE old[i].jobId
                     /\ logs'[i] = [old[i] EXCEPT !.jobId = logs'[i].jobId]]_vars

\* A legacy blob has been migrated: its log without a jobId now has the id of
\* the Main Job, and its log of job 9 still has 9.
C11_Witness ==
    /\ isLoaded
    /\ Len(jobs) = 1 /\ jobs[1].id = 100 /\ jobs[1].name = "Main Job"
    /\ Len(logs) = 2
    /\ logs[1].jobId = 9 /\ logs[1].duration = 8000
    /\ logs[2].jobId = 100 /\ logs[2].duration = 4000

\* C12: when the stored jobs are empty the load effect makes exactly one job,
\* named "Main Job", whose rate, target and next-tier fields are the legacy
\* settings fields where present (0 included) and the defaults of the same
\* fields where missing.
C12_MainJobFromLegacy ==
    [][(LoadStep /\ LegacyBlob(storage))
         => /\ Len(jobs') = 1
            /\ jobs'[1].name = "Main Job"
            /\ \A f \in LegacyFields :
                 jobs'[1][f] = IF f \in DOMAIN storage.settings
                               THEN storage.settings[f]
                               ELSE DEFAULT_JOB[f]]_vars

\* What the load effect does: a field that is 0 counts as missing, and a
\* missing weekend field takes the legacy field of the weekday before the
\* default.
C12_MainJobFromTruthyLegacy ==
    [][(LoadStep /\ LegacyBlob(storage))
         => LET st == storage.settings
                or(f, fallback) == IF ~Falsy(st, f) THEN st[f] ELSE fallback
            IN  /\ Len(jobs') = 1
                /\ jobs'[1].name = "Main Job"
                /\ jobs'[1].hourlyRate = or("hourlyRate", 60)
                /\ jobs'[1].weekendHourlyRate =
                     or("weekendHourlyRate", or("hourlyRate", 60))
                /\ jobs'[1].targetHours = or("targetHours", 1000)
                /\ jobs'[1].nextHourlyRate = or("nextHourlyRate", 70)
                /\ jobs'[1].nextWeekendHourlyRate =
                     or("nextWeekendHourlyRate", or("nextHourlyRate", 70))]_vars

\* C13: a load of an item that does not parse, or on which the migration
\* throws, completes with isLoaded true and the fresh state: no log, no
\* template, the default settings, nothing of the blob.
C13_FailedLoadGivesFreshState ==
    [][(LoadStep /\ ~LoadResult(storage, uuidCtr).ok)
         => /\ isLoaded'
            /\ logs' = <<>>
            /\ templates' = <<>>
            /\ settings' = DEFAULT_SETTINGS
            /\ uuidCtr' = uuidCtr]_vars

\* A load has failed: the app is loaded and holds no job (a load that
\* completes always leaves a job).
C13_Witness ==
    /\ isLoaded
    /\ jobs = <<>>
    /\ logs = <<>>
    /\ templates = <<>>
    /\ settings = DEFAULT_SETTINGS


---------------------------------------------------------------------------
(* Navigation: the page that mounts starts from its initial state          *)

\* <Route path="/" ...>: Dashboard mounts.
OpenDashboard ==
    /\ isLoaded
    /\ route # "/"
    /\ route' = "/"
    /\ dashSelectedJobId' = AllJobs
    /\ UNCHANGED <<envVars, appVars, calVars, verVars, rendered, logVars>>

\* <Route path="/log" ...>: WorkLogger mounts; its repair effect finds the
\* selected job among the jobs or there is no job.
OpenWorkLogger ==
    /\ isLoaded
    /\ route # "/log"
    /\ route' = "/log"
    /\ LET first == IF Len(jobs) > 0 THEN jobs[1].id ELSE NoId
       IN  logSelectedJobId' =
             IF Len(jobs) > 0 /\ FindJob(jobs, first) = Null
             THEN jobs[1].id ELSE first
    /\ logDate' = Today
    /\ mode' = "range"
    /\ startTime' = "15:30"
    /\ endTime' = "18:35"
    /\ manualDuration' = "8"
    /\ notes' = ""
    /\ UNCHANGED <<envVars, appVars, calVars, verVars, rendered,
                   dashSelectedJobId>>

\* <Route path="/settings" ...>: Settings mounts.
OpenSettings ==
    /\ isLoaded
    /\ route # "/settings"
    /\ route' = "/settings"
    /\ UNCHANGED <<envVars, appVars, calVars, verVars, rendered,
                   dashSelectedJobId, logVars>>

---------------------------------------------------------------------------
(* Dashboard: progress and level-up                                        *)

\* Dashboard.totalHours over the filtered logs (thousandths of an hour).
totalHours(ls, sel) ==
    LET fl == FilterByJob(ls, sel)
    IN  SumSeq([i \in 1..Len(fl) |-> fl[i].duration])

\* A number of JavaScript that is not finite, beside the finite ones.
NaN == [kind |-> "NaN"]
Num(x) == [kind |-> "number", value |-> x]

\* Math.min(100, Math.max(0, (totalHours / targetHours) * 100)), in
\* thousandths of a percent (rounded down). x / 0 is Infinity for x > 0,
\* -Infinity for x < 0 and NaN for x = 0; Math.max and Math.min give NaN
\* for a NaN argument.
progressPercentOf(total, target) ==
    IF target = 0
    THEN IF total = 0 THEN NaN
         ELSE IF total > 0 THEN Num(100000)
         ELSE Num(0)
    ELSE LET q == (total * 100) \div target
         IN  Num(IF q < 0 THEN 0 ELSE IF q > 100000 THEN 100000 ELSE q)

\* The job of the Dashboard filter (undefined for 'all' or an unknown id).
activeJobForLevelUp ==
    IF dashSelectedJobId = AllJobs THEN Null
    ELSE FindJob(jobs, dashSelectedJobId)

\* Dashboard.progressPercent (0 while no single job is selected).
progressPercent ==
    IF activeJobForLevelUp = Null THEN Num(0)
    ELSE progressPercentOf(totalHours(logs, dashSelectedJobId),
                           activeJobForLevelUp.targetHours)

\* canLevelUp of a banner shown for whatever job is selected.
canLevelUpAnyJob == activeJobForLevelUp # Null

\* canLevelUp with the rates left out of the test.
canLevelUpOnHours ==
    /\ activeJobForLevelUp # Null
    /\ totalHours(logs, dashSelectedJobId)
         >= activeJobForLevelUp.targetHours * 1000

\* Dashboard.canLevelUp
canLevelUp ==
    /\ activeJobForLevelUp # Null
    /\ totalHours(logs, dashSelectedJobId)
         >= activeJobForLevelUp.targetHours * 1000
    /\ activeJobForLevelUp.hourlyRate < activeJobForLevelUp.nextHourlyRate


---------------------------------------------------------------------------
(* WorkLogger: the log-entry form                                          *)

\* The texts the model types into the time inputs, and
\* t.split(':').map(Number) of each.
Times == {"15:30", "18:35"}

SplitTime(t) ==
    CASE t = "15:30" -> <<15, 30>>
      [] t = "18:35" -> <<18, 35>>

\* The texts the model types into the duration input, and parseFloat of
\* each (thousandths of an hour).
DurationTexts == {"8", "0", "-2", "abc"}

parseFloat(text) ==
    CASE text = "8" -> Num(8000)
      [] text = "0" -> Num(0)
      [] text = "-2" -> Num(-2000)
      [] OTHER -> NaN

\* WorkLogger.calculateDuration: minutes between the times, 24 h added when
\* negative, then parseFloat((diff / 60).toFixed(2)) in thousandths of an
\* hour (diff * 5 / 3 hundredths is never at a half, so the rounding is the
\* nearest).
calculateDuration(start, end) ==
    LET s == SplitTime(start)
        e == SplitTime(end)
        d == (e[1] * 60 + e[2]) - (s[1] * 60 + s[2])
        diff == IF d < 0 THEN d + 24 * 60 ELSE d
    IN  ((diff * 10 + 3) \div 6) * 10

\* The duration handleSubmit computes: parseFloat(manualDuration) || 0 in
\* manual mode.
SubmitDuration ==
    IF mode = "range" THEN calculateDuration(startTime, endTime)
    ELSE IF parseFloat(manualDuration) = NaN THEN 0
    ELSE parseFloat(manualDuration).value

\* The most logs the form may have added in a run.
MaxSubmits == 2

\* A handleSubmit that lets every duration through.
handleSubmitUnguarded ==
    /\ route = "/log"
    /\ uuidCtr < 100 + MaxSubmits
    /\ handleAddLog(MkLog(uuidCtr, logSelectedJobId, logDate,
                           IF mode = "range" THEN startTime ELSE "-",
                           IF mode = "range" THEN endTime ELSE "-",
                           SubmitDuration, notes))
    /\ uuidCtr' = uuidCtr + 1
    /\ notes' = ""
    /\ UNCHANGED <<tzWest, calVars, verVars, rendered, dashVars,
                   logSelectedJobId, logDate, mode, startTime, endTime,
                   manualDuration>>

\* WorkLogger.handleSubmit: a duration <= 0 is refused with an alert and
\* nothing changes; otherwise the log is added and the notes are emptied.
handleSubmit ==
    /\ route = "/log"
    /\ IF SubmitDuration <= 0
       THEN UNCHANGED vars
       ELSE /\ uuidCtr < 100 + MaxSubmits
            /\ handleAddLog(MkLog(uuidCtr, logSelectedJobId, logDate,
                                  IF mode = "range" THEN startTime ELSE "-",
                                  IF mode = "range" THEN endTime ELSE "-",
                                  SubmitDuration, notes))
            /\ uuidCtr' = uuidCtr + 1
            /\ notes' = ""
            /\ UNCHANGED <<tzWest, calVars, verVars, rendered, dashVars,
                           logSelectedJobId, logDate, mode, startTime,
                           endTime, manualDuration>>

\* App.handleDeleteLog from the list of the form, with the answer to
\* window.confirm.
handleDeleteLog(id, confirmed) ==
    /\ route = "/log"
    /\ IF confirmed
       THEN /\ logs' = SelectSeq(logs, LAMBDA l : l.id # id)
            /\ storage' = SavedState(logs', settings, jobs, templates)
            /\ UNCHANGED <<envVars, jobs, settings, templates, isLoaded,
                           calVars, verVars, rendered, dashVars, logVars>>
       ELSE UNCHANGED vars

\* The job buttons of the form.
SelectLogJob(id) ==
    /\ route = "/log"
    /\ logSelectedJobId' = id
    /\ UNCHANGED <<envVars, appVars, calVars, verVars, rendered, dashVars,
                   logDate, mode, startTime, endTime, manualDuration, notes>>

\* The range / manual switch.
SetMode(m) ==
    /\ route = "/log"
    /\ mode' = m
    /\ UNCHANGED <<envVars, appVars, calVars, verVars, rendered, dashVars,
                   logSelectedJobId, logDate, startTime, endTime,
                   manualDuration, notes>>

SetStartTime(t) ==
    /\ route = "/log"
    /\ startTime' = t
    /\ UNCHANGED <<envVars, appVars, calVars, verVars, rendered, dashVars,
                   logSelectedJobId, logDate, mode, endTime, manualDuration,
                   notes>>

SetEndTime(t) ==
    /\ route = "/log"
    /\ endTime' = t
    /\ UNCHANGED <<envVars, appVars, calVars, verVars, rendered, dashVars,
                   logSelectedJobId, logDate, mode, startTime,
                   manualDuration, notes>>

SetManualDuration(text) ==
    /\ route = "/log"
    /\ manualDuration' = text
    /\ UNCHANGED <<envVars, appVars, calVars, verVars, rendered, dashVars,
                   logSelectedJobId, logDate, mode, startTime, endTime,
                   notes>>

ClickLogJob == \E i \in 1..Len(jobs) : SelectLogJob(jobs[i].id)
SwitchMode == \E m \in {"range", "manual"} : SetMode(m)
TypeStartTime == \E t \in Times : SetStartTime(t)
TypeEndTime == \E t \in Times : SetEndTime(t)
TypeManualDuration == \E text \in DurationTexts : SetManualDuration(text)
ClickDeleteLog ==
    \E i \in 1..Len(logs), confirmed \in BOOLEAN :
       handleDeleteLog(logs[i].id, confirmed)


\* The form with the jobs of the sample, no log yet.
InitLogger ==
    /\ tzWest = FALSE
    /\ uuidCtr = 100
    /\ jobs = <<JobA, JobB>>
    /\ logs = <<>>
    /\ settings = DEFAULT_SETTINGS
    /\ templates = <<>>
    /\ isLoaded = TRUE
    /\ storage = SavedState(logs, settings, jobs, templates)
    /\ CalIdle
    /\ VerIdle
    /\ rendered = NothingRendered
    /\ route = "/log"
    /\ DashIdle
    /\ LogIdle(jobs)

NextLogger ==
    \/ ClickLogJob
    \/ SwitchMode
    \/ TypeStartTime
    \/ TypeEndTime
    \/ TypeManualDuration
    \/ handleSubmit
    \/ ClickDeleteLog

SpecLogger == InitLogger /\ [][NextLogger]_vars

---------------------------------------------------------------------------
(* Dashboard: level-up                                                     *)

\* App.handleUpdateJob, and the save effect that follows.
handleUpdateJob(updatedJob) ==
    /\ jobs' = [i \in 1..Len(jobs) |->
                  IF jobs[i].id = updatedJob.id THEN updatedJob ELSE jobs[i]]
    /\ storage' = SavedState(logs, settings, jobs', templates)
    /\ UNCHANGED <<logs, settings, templates, isLoaded>>

\* A level-up that raises the weekday rate only.
handleLevelUpWeekdayOnly(confirmed) ==
    /\ route = "/"
    /\ canLevelUp
    /\ IF activeJobForLevelUp # Null /\ confirmed
       THEN /\ handleUpdateJob(
                 [activeJobForLevelUp EXCEPT
                    !.hourlyRate = activeJobForLevelUp.nextHourlyRate])
            /\ UNCHANGED <<envVars, calVars, verVars, rendered, dashVars,
                           logVars>>
       ELSE UNCHANGED vars

\* A level-up that raises the weekend rate only.
handleLevelUpWeekendOnly(confirmed) ==
    /\ route = "/"
    /\ canLevelUp
    /\ IF activeJobForLevelUp # Null /\ confirmed
       THEN /\ handleUpdateJob(
                 [activeJobForLevelUp EXCEPT
                    !.weekendHourlyRate =
                       activeJobForLevelUp.nextWeekendHourlyRate])
            /\ UNCHANGED <<envVars, calVars, verVars, rendered, dashVars,
                           logVars>>
       ELSE UNCHANGED vars

\* Dashboard.handleLevelUp, from the button of the banner that is rendered
\* while canLevelUp, with the answer to window.confirm.
handleLevelUp(confirmed) ==
    /\ route = "/"
    /\ canLevelUp
    /\ IF activeJobForLevelUp # Null /\ confirmed
       THEN /\ handleUpdateJob(
                 [activeJobForLevelUp EXCEPT
                    !.hourlyRate = activeJobForLevelUp.nextHourlyRate,
                    !.weekendHourlyRate =
                       activeJobForLevelUp.nextWeekendHourlyRate])
            /\ UNCHANGED <<envVars, calVars, verVars, rendered, dashVars,
                           logVars>>
       ELSE UNCHANGED vars

\* The job filter of the Dashboard.
DashSelectJob(sel) ==
    /\ route = "/"
    /\ dashSelectedJobId' = sel
    /\ UNCHANGED <<envVars, appVars, calVars, verVars, rendered, route,
                   logVars>>

ClickLevelUp == \E confirmed \in BOOLEAN : handleLevelUp(confirmed)

SelectSomeDashJob ==
    \E sel \in {AllJobs} \cup {jobs[i].id : i \in 1..Len(jobs)} :
       DashSelectJob(sel)

\* Jobs for the level-up: one with a target of 6 h and higher next rates,
\* one with no target and next rates equal to the current ones, one with
\* no target and higher next rates.
JobL == [JobA EXCEPT !.targetHours = 6]
JobZ ==
    [id |-> 3, name |-> "Job 3", color |-> "#059669",
     hourlyRate |-> 50, weekendHourlyRate |-> 50, targetHours |-> 0,
     nextHourlyRate |-> 55, nextWeekendHourlyRate |-> 60]

InitDashboard ==
    /\ tzWest = FALSE
    /\ uuidCtr = 100
    /\ jobs = <<JobL, JobB, JobZ>>
    /\ logs = <<>>
    /\ settings = DEFAULT_SETTINGS
    /\ templates = <<>>
    /\ isLoaded = TRUE
    /\ storage = SavedState(logs, settings, jobs, templates)
    /\ CalIdle
    /\ VerIdle
    /\ rendered = NothingRendered
    /\ route = "/"
    /\ DashIdle
    /\ LogIdle(jobs)

NextDashboard ==
    \/ OpenDashboard
    \/ OpenWorkLogger
    \/ SelectSomeDashJob
    \/ ClickLevelUp
    \/ ClickLogJob
    \/ SwitchMode
    \/ handleSubmit
    \/ ClickDeleteLog

SpecDashboard == InitDashboard /\ [][NextDashboard]_vars


---------------------------------------------------------------------------
(* Promotion: C14, C15, C16, C17                                           *)

\* The hours logged for job id (thousandths of an hour).
HoursLoggedFor(id) ==
    LET own == SelectSeq(logs, LAMBDA l : l.jobId = id)
    IN  SumSeq([i \in 1..Len(own) |-> own[i].duration])

\* eligible, as the specification defines it.
Eligible(job) ==
    /\ HoursLoggedFor(job.id) >= job.targetHours * 1000
    /\ job.hourlyRate < job.nextHourlyRate

\* promote(job)
Promoted(job) ==
    [job EXCEPT !.hourlyRate = job.nextHourlyRate,
                !.weekendHourlyRate = job.nextWeekendHourlyRate]

\* C14: for the job selected on the Dashboard, the level-up is offered iff
\* the hours logged for the job reach its target and its hourly rate is
\* below its next hourly rate.
C14_EligibleIff ==
    \A i \in 1..Len(jobs) :
       (route = "/" /\ dashSelectedJobId = jobs[i].id)
          => (canLevelUp <=> Eligible(jobs[i]))

\* Job 1 is selected with logs that reach its target of 6 h, and the
\* level-up is offered.
C14_Witness ==
    /\ route = "/"
    /\ dashSelectedJobId = 1
    /\ Len(logs) > 0
    /\ HoursLoggedFor(1) >= 6000
    /\ canLevelUp

\* C15: a promotion puts the next rates of the job in its current rates and
\* leaves its other fields, the other jobs and the logs as they are.
C15_PromoteFrame ==
    [][(route = "/" /\ jobs' # jobs)
         => /\ \E i \in 1..Len(jobs) :
                 /\ jobs[i].id = dashSelectedJobId
                 /\ jobs' = [jobs EXCEPT ![i] = Promoted(jobs[i])]
            /\ logs' = logs
            /\ settings' = settings
            /\ templates' = templates]_vars

\* Job 1 has been promoted: its rates are its next rates of before, which
\* it still has, with its target.
C15_Witness ==
    /\ route = "/"
    /\ jobs[1] = [JobL EXCEPT !.hourlyRate = 70, !.weekendHourlyRate = 85]
    /\ jobs[2] = JobB
    /\ jobs[3] = JobZ
    /\ Len(logs) > 0

\* C16: the jobs change only by a level-up on the Dashboard while the
\* selected job is eligible, and a step that adds or deletes a log changes
\* no job.
C16_OnlyExplicitLevelUp ==
    [][/\ (jobs' # jobs)
            => /\ route = "/"
               /\ logs' = logs
               /\ \E i \in 1..Len(jobs) :
                    /\ jobs[i].id = dashSelectedJobId
                    /\ Eligible(jobs[i])
                    /\ jobs' = [jobs EXCEPT ![i] = Promoted(jobs[i])]
       /\ (logs' # logs) => (jobs' = jobs)]_vars

\* The logs of job 1 have reached its target and the job has the rates it
\* started with.
C16_Witness ==
    /\ HoursLoggedFor(1) >= 6000
    /\ jobs[1] = JobL
    /\ route = "/log"

\* C17: the progress of the selected job is 0 when its target is 0, and
\* totalHours / targetHours * 100 clamped to [0, 100] otherwise (here in
\* thousandths of a percent, rounded down).
C17_ProgressPercent ==
    \A i \in 1..Len(jobs) :
       (route = "/" /\ dashSelectedJobId = jobs[i].id)
          => LET target == jobs[i].targetHours
                 h == HoursLoggedFor(jobs[i].id)
                 p == progressPercent
             IN  IF target = 0 THEN p = Num(0)
                 ELSE /\ p.kind = "number"
                      /\ (h <= 0 => p.value = 0)
                      /\ (h >= target * 1000 => p.value = 100000)
                      /\ (0 < h /\ h < target * 1000
                            => /\ p.value * target <= h * 100
                               /\ h * 100 < (p.value + 1) * target)

\* The progress is as claimed for every job whose target is not 0.
C17_ProgressWhenTargetPositive ==
    \A i \in 1..Len(jobs) :
       (route = "/" /\ dashSelectedJobId = jobs[i].id
          /\ jobs[i].targetHours # 0)
          => LET target == jobs[i].targetHours
                 h == HoursLoggedFor(jobs[i].id)
                 p == progressPercent
             IN  /\ p.kind = "number"
                 /\ (h <= 0 => p.value = 0)
                 /\ (h >= target * 1000 => p.value = 100000)
                 /\ (0 < h /\ h < target * 1000
                       => /\ p.value * target <= h * 100
                          /\ h * 100 < (p.value + 1) * target)

---------------------------------------------------------------------------
(* Log creation: C18                                                       *)

\* The form holds a duration that is not positive: a manual text that is
\* zero, negative or no number, or a range whose start is its end.
FormDurationInvalid ==
    \/ mode = "manual" /\ manualDuration \in {"0", "-2", "abc"}
    \/ mode = "range" /\ startTime = endTime

\* C18: no step from a form whose duration is not positive adds a log, and
\* the submit of such a form changes nothing; every log the form adds has a
\* duration above 0.
C18_NonPositiveRejected ==
    [][/\ (route = "/log" /\ FormDurationInvalid)
            => /\ Len(logs') <= Len(logs)
               /\ jobs' = jobs /\ templates' = templates
               /\ settings' = settings
       /\ (Len(logs') > Len(logs)) => logs'[1].duration > 0]_vars

\* The form holds a range whose start is its end, after it added one log.
C18_Witness ==
    /\ route = "/log"
    /\ mode = "range"
    /\ startTime = endTime
    /\ Len(logs) = 1
    /\ uuidCtr = 101


---------------------------------------------------------------------------
(* Log validity: C19                                                       *)

\* C19: every log held in the state has a duration above 0.
C19_DurationsPositive ==
    \A i \in 1..Len(logs) : logs[i].duration > 0

\* Every log that is not a remediation has a duration above 0, and a
\* remediation never has the duration 0.
C19_OnlyRemediationsNegative ==
    \A i \in 1..Len(logs) :
       /\ ~IsRemediation(logs[i]) => logs[i].duration > 0
       /\ logs[i].duration # 0

---------------------------------------------------------------------------
(* Settings: jobs; WorkLogger: templates                                   *)

\* Settings.COLORS[n % COLORS.length]
ColorOf(n) ==
    CASE n % 6 = 0 -> "#4F46E5"
      [] n % 6 = 1 -> "#DB2777"
      [] n % 6 = 2 -> "#059669"
      [] n % 6 = 3 -> "#D97706"
      [] n % 6 = 4 -> "#7C3AED"
      [] n % 6 = 5 -> "#2563EB"

\* `Job ${n}` for the few n a run reaches.
JobName(n) ==
    CASE n = 1 -> "Job 1"
      [] n = 2 -> "Job 2"
      [] n = 3 -> "Job 3"
      [] n = 4 -> "Job 4"
      [] OTHER -> "Job 5"

\* The most jobs a run holds, and the most identifiers the Settings page
\* and the template form draw in a run.
MaxJobs == 3
MaxNewIds == 2

\* App.handleAddJob, and the save effect that follows.
handleAddJob(newJob) ==
    /\ jobs' = Append(jobs, newJob)
    /\ storage' = SavedState(logs, settings, jobs', templates)
    /\ UNCHANGED <<logs, settings, templates, isLoaded>>

\* Settings.handleAddNewJob
handleAddNewJob ==
    /\ route = "/settings"
    /\ Len(jobs) < MaxJobs
    /\ uuidCtr < 100 + MaxNewIds
    /\ handleAddJob([DEFAULT_JOB EXCEPT
                       !.id = uuidCtr,
                       !.name = JobName(Len(jobs) + 1),
                       !.color = ColorOf(Len(jobs))])
    /\ uuidCtr' = uuidCtr + 1
    /\ UNCHANGED <<tzWest, calVars, verVars, rendered, dashVars, logVars>>

\* A handleDeleteJob that leaves the logs of the job.
handleDeleteJobNoCascade(jobId, confirmed) ==
    /\ route = "/settings"
    /\ IF Len(jobs) <= 1 \/ ~confirmed
       THEN UNCHANGED vars
       ELSE /\ jobs' = SelectSeq(jobs, LAMBDA j : j.id # jobId)
            /\ storage' = SavedState(logs, settings, jobs', templates)
            /\ UNCHANGED <<envVars, logs, settings, templates, isLoaded,
                           calVars, verVars, rendered, dashVars, logVars>>

\* App.handleDeleteJob with the answer to window.confirm: the last job is
\* kept; otherwise the job and its logs go, and the state is saved.
handleDeleteJob(jobId, confirmed) ==
    /\ route = "/settings"
    /\ IF Len(jobs) <= 1 \/ ~confirmed
       THEN UNCHANGED vars
       ELSE /\ jobs' = SelectSeq(jobs, LAMBDA j : j.id # jobId)
            /\ logs' = SelectSeq(logs, LAMBDA l : l.jobId # jobId)
            /\ storage' = SavedState(logs', settings, jobs', templates)
            /\ UNCHANGED <<envVars, settings, templates, isLoaded, calVars,
                           verVars, rendered, dashVars, logVars>>

\* WorkLogger.confirmSaveTemplate with the name typed: an empty name does
\* nothing; otherwise the template of the form is appended and saved.
confirmSaveTemplate(newTemplateName) ==
    /\ route = "/log"
    /\ IF newTemplateName = ""
       THEN UNCHANGED vars
       ELSE /\ uuidCtr < 100 + MaxNewIds
            /\ templates' =
                 Append(templates,
                        MkTemplate(uuidCtr, newTemplateName, logSelectedJobId,
                                   startTime, endTime, notes))
            /\ storage' = SavedState(logs, settings, jobs, templates')
            /\ uuidCtr' = uuidCtr + 1
            /\ UNCHANGED <<tzWest, logs, jobs, settings, isLoaded, calVars,
                           verVars, rendered, dashVars, logVars>>

\* WorkLogger.handleLoadTemplate: the repair effect does not run, since
\* jobs did not change.
handleLoadTemplate(t) ==
    /\ route = "/log"
    /\ logSelectedJobId' = t.jobId
    /\ startTime' = t.startTime
    /\ endTime' = t.endTime
    /\ notes' = t.notes
    /\ mode' = "range"
    /\ UNCHANGED <<envVars, appVars, calVars, verVars, rendered, dashVars,
                   logDate, manualDuration>>

ClickDeleteJob ==
    \E i \in 1..Len(jobs), confirmed \in BOOLEAN :
       handleDeleteJob(jobs[i].id, confirmed)
SaveTemplate == \E name \in {"", "Early"} : confirmSaveTemplate(name)
ClickTemplate == \E i \in 1..Len(templates) : handleLoadTemplate(templates[i])

InitTemplates ==
    /\ tzWest = FALSE
    /\ uuidCtr = 100
    /\ jobs = <<JobA, JobB>>
    /\ logs = <<>>
    /\ settings = DEFAULT_SETTINGS
    /\ templates = <<>>
    /\ isLoaded = TRUE
    /\ storage = SavedState(logs, settings, jobs, templates)
    /\ CalIdle
    /\ VerIdle
    /\ rendered = NothingRendered
    /\ route = "/log"
    /\ DashIdle
    /\ LogIdle(jobs)

NextTemplates ==
    \/ OpenWorkLogger
    \/ OpenSettings
    \/ handleAddNewJob
    \/ ClickDeleteJob
    \/ ClickLogJob
    \/ SaveTemplate
    \/ ClickTemplate
    \/ handleSubmit
    \/ ClickDeleteLog

SpecTemplates == InitTemplates /\ [][NextTemplates]_vars

\* C20: a log the form adds has the id of a job that exists when it is
\* added.
C20_FormLogReferencesJob ==
    [][(route = "/log" /\ Len(logs') > Len(logs))
         => FindJob(jobs, logs'[1].jobId) # Null]_vars

\* The form adds a log of an existing job as long as every template has
\* the id of an existing job: the job selected at mount and by the job
\* buttons exists.
C20_HoldsWhileTemplateJobsExist ==
    [][(route = "/log" /\ Len(logs') > Len(logs)
          /\ \A i \in 1..Len(templates) :
                FindJob(jobs, templates[i].jobId) # Null)
         => FindJob(jobs, logs'[1].jobId) # Null]_vars


---------------------------------------------------------------------------
(* Job deletion: C21                                                       *)

\* C21: a step of the Settings page that removes a job removes exactly one
\* job J and exactly the logs of J; the other jobs and logs, the settings
\* and the templates stay as they are. (A declined deletion is a step that
\* changes nothing.)
C21_DeleteJobCascades ==
    [][(route = "/settings" /\ Len(jobs') < Len(jobs))
         => \E i \in 1..Len(jobs) :
               /\ jobs' = SelectSeq(jobs, LAMBDA j : j.id # jobs[i].id)
               /\ Len(jobs') = Len(jobs) - 1
               /\ FindJob(jobs', jobs[i].id) = Null
               /\ logs' = SelectSeq(logs, LAMBDA l : l.jobId # jobs[i].id)
               /\ \A k \in 1..Len(logs') : logs'[k].jobId # jobs[i].id
               /\ settings' = settings
               /\ templates' = templates]_vars

\* Two logs were added, one for each job; job 2 is gone with its log and
\* the log of job 1 is there.
C21_Witness ==
    /\ route = "/settings"
    /\ jobs = <<JobA>>
    /\ uuidCtr = 102
    /\ Len(logs) = 1
    /\ logs[1].jobId = 1


---------------------------------------------------------------------------
(* Settings: editing a job, the pay scale assistant                        *)

\* const activeJob = jobs.find(j => j.id === activeJobId) || jobs[0]
SettingsActiveJob(activeJobId) ==
    IF FindJob(jobs, activeJobId) # Null THEN FindJob(jobs, activeJobId)
    ELSE IF Len(jobs) > 0 THEN jobs[1]
    ELSE Null

\* The numeric fields of a job that the Settings page has an input for.
JobNumberFields ==
    {"hourlyRate", "weekendHourlyRate", "targetHours", "nextHourlyRate",
     "nextWeekendHourlyRate"}

\* Number(e.target.value) of what is typed into <input type="number"
\* step="0.01"> (no min attribute): 0 for the emptied input, 75, and -5.
TypedNumbers == {0, 75, -5}

\* Settings.handleJobChange(field, value), with the id of the job tab that
\* is active.
handleJobChange(activeJobId, field, value) ==
    /\ route = "/settings"
    /\ IF SettingsActiveJob(activeJobId) = Null
       THEN UNCHANGED vars
       ELSE /\ handleUpdateJob(
                 [SettingsActiveJob(activeJobId) EXCEPT ![field] = value])
            /\ UNCHANGED <<envVars, calVars, verVars, rendered, dashVars,
                           logVars>>

\* The selections of the pay scale assistant that are drawn, at the age
\* '20yrs +': a level with a target and a next level, the last level of its
\* role, and the only level of a role without targets.
PayScaleSelections ==
    {<<"Instructor / Coach", "Level 2">>,
     <<"Instructor / Coach", "Level 4A">>,
     <<"Supervisor", "Level 5">>}

\* previewData as its effect computes it from PAY_RATES and LEVEL_TARGETS
\* for a selection; target and next rates are absent (undefined) where the
\* tables have none. Amounts are in whole currency units, as those of the
\* sample jobs: the cents of the table are dropped.
previewData(selection) ==
    CASE selection = <<"Instructor / Coach", "Level 2">> ->
           [regular |-> 31, weekend |-> 33, target |-> 350,
            nextRegular |-> 33, nextWeekend |-> 35]
      [] selection = <<"Instructor / Coach", "Level 4A">> ->
           [regular |-> 38, weekend |-> 40]
      [] selection = <<"Supervisor", "Level 5">> ->
           [regular |-> 41, weekend |-> 42]

\* `${selectedRole} - ${selectedLevel}`
RoleLevelName(selection) ==
    CASE selection = <<"Instructor / Coach", "Level 2">> ->
           "Instructor / Coach - Level 2"
      [] selection = <<"Instructor / Coach", "Level 4A">> ->
           "Instructor / Coach - Level 4A"
      [] selection = <<"Supervisor", "Level 5">> -> "Supervisor - Level 5"

\* Settings.handleApplyRates, with the id of the active job tab and the
\* selection of the assistant.
handleApplyRates(activeJobId, selection) ==
    /\ route = "/settings"
    /\ LET a == SettingsActiveJob(activeJobId)
           p == previewData(selection)
       IN  IF a = Null
           THEN UNCHANGED vars
           ELSE /\ handleUpdateJob(
                     [a EXCEPT
                        !.name = RoleLevelName(selection),
                        !.hourlyRate = p.regular,
                        !.weekendHourlyRate = p.weekend,
                        !.targetHours =
                           IF ~Falsy(p, "target") THEN p.target
                           ELSE a.targetHours,
                        !.nextHourlyRate =
                           IF ~Falsy(p, "nextRegular") THEN p.nextRegular
                           ELSE a.nextHourlyRate,
                        !.nextWeekendHourlyRate =
                           IF ~Falsy(p, "nextWeekend") THEN p.nextWeekend
                           ELSE a.nextWeekendHourlyRate])
                /\ UNCHANGED <<envVars, calVars, verVars, rendered, dashVars,
                               logVars>>

\* The fields the specification of the Settings page types into.
EditedFields == {"hourlyRate", "targetHours", "nextHourlyRate"}

TypeJobField ==
    \E i \in 1..Len(jobs), field \in EditedFields, value \in TypedNumbers :
       handleJobChange(jobs[i].id, field, value)

ClickApplyRates ==
    \E i \in 1..Len(jobs), selection \in PayScaleSelections :
       handleApplyRates(jobs[i].id, selection)

InitSettings ==
    /\ tzWest = FALSE
    /\ uuidCtr = 100
    /\ jobs = <<JobA>>
    /\ logs = <<>>
    /\ settings = DEFAULT_SETTINGS
    /\ templates = <<>>
    /\ isLoaded = TRUE
    /\ storage = SavedState(logs, settings, jobs, templates)
    /\ CalIdle
    /\ VerIdle
    /\ rendered = NothingRendered
    /\ route = "/settings"
    /\ DashIdle
    /\ LogIdle(jobs)

NextSettings ==
    \/ OpenDashboard
    \/ OpenSettings
    \/ TypeJobField
    \/ ClickApplyRates

SpecSettings == InitSettings /\ [][NextSettings]_vars

\* C22: every job has its four rates and its target hours at or above 0.
C22_RatesAndTargetNonNegative ==
    \A i \in 1..Len(jobs) :
       \A field \in JobNumberFields : jobs[i][field] >= 0

\* The pay scale assistant by itself writes no negative number: a step
\* that is not typing into a field keeps C22's property.
C22_ApplyRatesKeepsNonNegative ==
    [][(C22_RatesAndTargetNonNegative
          /\ \E i \in 1..Len(jobs) :
                jobs'[i].name # jobs[i].name)
         => C22_RatesAndTargetNonNegative']_vars


---------------------------------------------------------------------------
(* Legacy rate fields of the settings: C23                                 *)

\* The settings without the legacy rate fields.
StripLegacy(st) == [k \in DOMAIN st \ LegacyFields |-> st[k]]

\* Values the legacy rate fields of stored settings may have: none present,
\* some present, all present, zero and positive.
LegacyValues ==
    { <<>>,
      [hourlyRate |-> 50, targetHours |-> 500],
      [hourlyRate |-> 0, weekendHourlyRate |-> 80, nextHourlyRate |-> 90],
      [hourlyRate |-> 75, weekendHourlyRate |-> 65, targetHours |-> 0,
       nextHourlyRate |-> 0, nextWeekendHourlyRate |-> 75] }

\* The stored blobs that differ from saved in the legacy rate fields of
\* the settings only.
LegacyVariants(saved) ==
    { [saved EXCEPT !.settings = Spread(StripLegacy(saved.settings), lv)] :
        lv \in LegacyValues }

\* What the pages compute from a loaded state: the dashboard's earnings per
\* job filter, the progress and the rate test of the eligibility per job.
ResultsOf(st) ==
    [earnings |-> [sel \in {AllJobs} \cup {st.jobs[i].id : i \in 1..Len(st.jobs)}
                     |-> DashboardView(st.jobs, st.logs, sel, tzWest)],
     progress |-> [i \in 1..Len(st.jobs) |->
                     progressPercentOf(totalHours(st.logs, st.jobs[i].id),
                                       st.jobs[i].targetHours)],
     rateAllows |-> [i \in 1..Len(st.jobs) |->
                       st.jobs[i].hourlyRate < st.jobs[i].nextHourlyRate]]

\* C23: a load of a stored blob whose jobs are not empty gives the same
\* jobs, logs, templates, settings apart from the legacy rate fields, and
\* the same computed results, as the load of any blob that differs from it
\* in the legacy rate fields of the settings only.
C23_LegacyFieldsIgnored ==
    [][(LoadStep /\ "settings" \in DOMAIN storage
          /\ Len(FieldOr(storage, "jobs", <<>>)) > 0)
         => \A v \in LegacyVariants(storage) :
               LET r == LoadResult(v, uuidCtr)
               IN  /\ r.ok
                   /\ r.state.jobs = jobs'
                   /\ r.state.logs = logs'
                   /\ r.state.templates = templates'
                   /\ StripLegacy(r.state.settings) = StripLegacy(settings')
                   /\ ResultsOf(r.state) = ResultsOf(AppState')]_vars

\* A blob with jobs and with legacy rate fields in its settings has been
\* loaded: the legacy weekday rate is 50, the job's is 60.
C23_Witness ==
    /\ isLoaded
    /\ Len(jobs) = 2
    /\ Len(logs) = 2
    /\ "hourlyRate" \in DOMAIN settings
    /\ settings.hourlyRate = 50
    /\ jobs[1].hourlyRate = 60


---------------------------------------------------------------------------
(* Dashboard: the trend chart in 'recent' mode                             *)

\* A day n days after date.
AddDays(date, n) == CivilFromDays(DaysFromCivil(date) + n)

\* Dashboard.chartData in 'recent' mode over the filtered logs fl. now is
\* the instant new Date() returns: its calendar date on the wall clock
\* (local) and its date in UTC. setDate() counts days on the local
\* calendar, getDay() reads the local day, toISOString() gives the UTC date
\* of the same instant.
chartData(fl, now) ==
    LET startDate == AddDays(now.local, -6)
        shift     == DaysFromCivil(now.utc) - DaysFromCivil(now.local)
    IN  [k \in 1..7 |->
           LET d       == AddDays(startDate, k - 1)
               dateStr == AddDays(d, shift)
               dayLogs == SelectSeq(fl, LAMBDA l : l.date = dateStr)
           IN  [hours |-> SumSeq([j \in 1..Len(dayLogs) |->
                                     dayLogs[j].duration]),
                fullDate |-> dateStr,
                isWeekend |-> CalendarDayOfWeek(d) \in {0, 6}]]

\* The wall-clock dates the chart is drawn on: a day whose trailing week
\* crosses the leap day and the end of a month, and a day in mid-month.
ChartTodays == {<<2024, 3, 3>>, Today}

\* The instants of a wall-clock day: the UTC date is the same, or the day
\* after late in the evening of a zone behind UTC, or the day before early
\* in the morning of a zone ahead of UTC.
ChartNows ==
    { [local |-> t, utc |-> AddDays(t, s)] :
        t \in ChartTodays, s \in (IF tzWest THEN {0, 1} ELSE {0, -1}) }

\* The largest number of logs the chart's specification starts with.
MaxChartLogs == 2

\* <<jobId, date, duration>> of the logs the chart is drawn over: inside
\* and just outside the trailing weeks of ChartTodays.
ChartLogShapes ==
    {1, 2} \X {<<2024, 2, 25>>, <<2024, 2, 29>>, <<2024, 3, 3>>,
               <<2024, 3, 11>>} \X {5000}

InitChart ==
    /\ tzWest \in BOOLEAN
    /\ uuidCtr = 100
    /\ jobs = <<JobA, JobB>>
    /\ \E shapes \in SeqsOf(ChartLogShapes, 0, MaxChartLogs) :
         logs = [i \in 1..Len(shapes) |->
                   MkLog(i, shapes[i][1], shapes[i][2], "-", "-",
                         shapes[i][3], "")]
    /\ settings = DEFAULT_SETTINGS
    /\ templates = <<>>
    /\ isLoaded = TRUE
    /\ storage = SavedState(logs, settings, jobs, templates)
    /\ CalIdle
    /\ VerIdle
    /\ rendered = NothingRendered
    /\ route = "/"
    /\ DashIdle
    /\ LogIdle(jobs)

\* The Dashboard renders its chart (trendMode is 'recent' from the mount).
RenderRecentChart ==
    /\ route = "/"
    /\ \E now \in ChartNows :
         rendered' =
           [view |-> "chart", today |-> now.local, utcDate |-> now.utc,
            sel |-> dashSelectedJobId,
            data |-> chartData(FilterByJob(logs, dashSelectedJobId), now)]
    /\ UNCHANGED <<dashVars, logVars, envVars, appVars, calVars, verVars>>

NextChart == SelectSomeDashJob \/ RenderRecentChart

SpecChart == InitChart /\ [][NextChart]_vars

\* The hours of the logs of the job filter sel dated date.
HoursOn(sel, date) ==
    LET dl == SelectSeq(FilterByJob(logs, sel), LAMBDA l : l.date = date)
    IN  SumSeq([j \in 1..Len(dl) |-> dl[j].duration])

\* The chart has 7 buckets of consecutive days in ascending order, the
\* last of them dated last, each with the hours of the filtered logs of
\* its day (0 without a log).
RecentBucketsEndAt(last) ==
    /\ Len(rendered.data) = 7
    /\ \A k \in 1..7 :
          /\ rendered.data[k].fullDate = AddDays(last, k - 7)
          /\ rendered.data[k].hours = HoursOn(rendered.sel, AddDays(last, k - 7))

\* C24: in 'recent' mode the chart has exactly 7 buckets, dated the 7
\* consecutive calendar days that end at today (the date on the wall
\* clock), ascending, each with the summed durations of the job-filtered
\* logs of its day, 0 where there is none.
C24_RecentBuckets ==
    rendered.view = "chart" => RecentBucketsEndAt(rendered.today)

\* What the code gives: the 7 days end at the UTC date of the instant the
\* chart is drawn at.
C24_BucketsEndAtUtcDate ==
    rendered.view = "chart" => RecentBucketsEndAt(rendered.utcDate)


---------------------------------------------------------------------------
(* Import of a backup file; the whole App                                  *)

\* What App.handleImport sets once the confirmation is given, with the
\* uuid a synthesized job gets: madeJob tells whether it was drawn.
ImportResult(data, uuid) ==
    IF Len(FieldOr(data, "jobs", <<>>)) = 0
    THEN [madeJob |-> TRUE,
          state |->
            [logs |-> [i \in 1..Len(data.logs) |->
                         [data.logs[i] EXCEPT !.jobId = uuid]],
             jobs |-> <<[DEFAULT_JOB EXCEPT
                           !.id = uuid,
                           !.hourlyRate =
                              IF ~Falsy(data.settings, "hourlyRate")
                              THEN data.settings.hourlyRate
                              ELSE DEFAULT_JOB.hourlyRate,
                           !.weekendHourlyRate =
                              IF ~Falsy(data.settings, "weekendHourlyRate")
                              THEN data.settings.weekendHourlyRate
                              ELSE IF ~Falsy(data.settings, "hourlyRate")
                                   THEN data.settings.hourlyRate
                              ELSE DEFAULT_JOB.weekendHourlyRate]>>,
             settings |-> Spread(DEFAULT_SETTINGS, data.settings),
             templates |-> FieldOr(data, "templates", <<>>)]]
    ELSE [madeJob |-> FALSE,
          state |->
            [logs |-> data.logs,
             jobs |-> data.jobs,
             settings |-> Spread(DEFAULT_SETTINGS, data.settings),
             templates |-> FieldOr(data, "templates", <<>>)]]

\* An import that is set but never saved.
handleImportUnsaved(data, confirmed) ==
    IF ~confirmed
    THEN UNCHANGED vars
    ELSE LET r == ImportResult(data, uuidCtr)
         IN  /\ r.madeJob => uuidCtr < 100 + MaxNewIds
             /\ logs' = r.state.logs
             /\ jobs' = r.state.jobs
             /\ settings' = r.state.settings
             /\ templates' = r.state.templates
             /\ uuidCtr' = IF r.madeJob THEN uuidCtr + 1 ELSE uuidCtr
             /\ UNCHANGED <<tzWest, isLoaded, storage, calVars, verVars,
                            rendered, dashVars, logVars>>

\* App.handleImport with the answer to window.confirm, and the save effect
\* that follows.
handleImport(data, confirmed) ==
    IF ~confirmed
    THEN UNCHANGED vars
    ELSE LET r == ImportResult(data, uuidCtr)
         IN  /\ r.madeJob => uuidCtr < 100 + MaxNewIds
             /\ logs' = r.state.logs
             /\ jobs' = r.state.jobs
             /\ settings' = r.state.settings
             /\ templates' = r.state.templates
             /\ uuidCtr' = IF r.madeJob THEN uuidCtr + 1 ELSE uuidCtr
             /\ storage' = SavedState(r.state.logs, r.state.settings,
                                      r.state.jobs, r.state.templates)
             /\ UNCHANGED <<tzWest, isLoaded, calVars, verVars, rendered,
                            dashVars, logVars>>

\* DataManagement.handleFileChange on the text of the chosen file: a text
\* that does not parse, or a blob without logs or without settings, is
\* refused and nothing changes.
handleFileChange(file, confirmed) ==
    /\ route = "/settings"
    /\ IF file = Unparsable \/ "logs" \notin DOMAIN file
          \/ "settings" \notin DOMAIN file
       THEN UNCHANGED vars
       ELSE handleImport(file, confirmed)

\* Settings.toggleTheme through App.setSettings, and the save effect.
toggleTheme ==
    /\ route = "/settings"
    /\ settings' = [settings EXCEPT
                      !.theme = IF settings.theme = "dark" THEN "light"
                                ELSE "dark"]
    /\ storage' = SavedState(logs, settings', jobs, templates)
    /\ UNCHANGED <<envVars, logs, jobs, templates, isLoaded, calVars,
                   verVars, rendered, dashVars, logVars>>

\* WorkLogger.handleDeleteTemplate with the answer to window.confirm.
handleDeleteTemplate(id, confirmed) ==
    /\ route = "/log"
    /\ IF confirmed
       THEN /\ templates' = SelectSeq(templates, LAMBDA t : t.id # id)
            /\ storage' = SavedState(logs, settings, jobs, templates')
            /\ UNCHANGED <<envVars, logs, jobs, settings, isLoaded, calVars,
                           verVars, rendered, dashVars, logVars>>
       ELSE UNCHANGED vars

ClickDeleteTemplate ==
    \E i \in 1..Len(templates), confirmed \in BOOLEAN :
       handleDeleteTemplate(templates[i].id, confirmed)

\* The name input of the active job.
TypeJobName ==
    \E i \in 1..Len(jobs) : handleJobChange(jobs[i].id, "name", "Pool")

\* Files the user imports into the running App: a text that is no JSON, a
\* blob without settings, a backup of the format before jobs existed, a
\* backup with an empty list of jobs, and a backup of the current format.
ImportSamples ==
    { Unparsable,
      [logs |-> <<>>],
      [logs |-> <<MkLog(1, NoId, <<2024, 1, 1>>, "-", "-", 8000, ""),
                  MkLog(2, 1, <<2023, 12, 30>>, "-", "-", 4000, "")>>,
       settings |-> [hourlyRate |-> 50, targetHours |-> 500]],
      [logs |-> <<>>, jobs |-> <<>>, settings |-> DEFAULT_SETTINGS],
      [logs |-> <<MkLog(2, 2, <<2023, 12, 30>>, "-", "-", 4000, "")>>,
       jobs |-> <<JobB>>, settings |-> DEFAULT_SETTINGS,
       templates |-> <<MkTemplate(7, "Early", 2, "15:30", "18:35", "")>>] }

ImportSample ==
    \E file \in ImportSamples, confirmed \in BOOLEAN :
       handleFileChange(file, confirmed)

\* What localStorage holds when the App starts.
AppStoredItems ==
    { Null, Unparsable,
      [logs |-> <<MkLog(1, NoId, <<2024, 1, 1>>, "-", "-", 8000, "")>>,
       settings |-> [hourlyRate |-> 50, targetHours |-> 500]],
      SavedState(<<>>, DEFAULT_SETTINGS, <<JobA, JobB>>, <<>>) }

InitApp ==
    /\ tzWest = FALSE
    /\ uuidCtr = 100
    /\ logs = FreshState.logs
    /\ jobs = FreshState.jobs
    /\ settings = FreshState.settings
    /\ templates = FreshState.templates
    /\ isLoaded = FALSE
    /\ storage \in AppStoredItems
    /\ CalIdle
    /\ VerIdle
    /\ rendered = NothingRendered
    /\ route = "/"
    /\ DashIdle
    /\ LogIdle(jobs)

NextApp ==
    \/ LoadEffect
    \/ OpenDashboard
    \/ OpenWorkLogger
    \/ OpenSettings
    \/ handleSubmit
    \/ ClickDeleteLog
    \/ SaveTemplate
    \/ ClickDeleteTemplate
    \/ handleAddNewJob
    \/ TypeJobName
    \/ ClickDeleteJob
    \/ toggleTheme
    \/ ImportSample

SpecApp == InitApp /\ [][NextApp]_vars

\* C25: once the load has completed, after every step the stored blob is
\* the state in memory {logs, settings, jobs, templates}; and no step
\* writes the stored item while the load has not completed.
C25_SavedAfterEveryMutation ==
    [][/\ isLoaded' => storage' = SavedState(logs', settings', jobs',
                                             templates')
       /\ ~isLoaded' => storage' = storage]_vars

\* A legacy blob was loaded and migrated, a log added, the job renamed and
\* the theme switched; the stored blob holds all of it.
C25_Witness ==
    /\ isLoaded
    /\ Len(logs) = 2
    /\ Len(jobs) = 1 /\ jobs[1].hourlyRate = 50 /\ jobs[1].name = "Pool"
    /\ settings.theme = "dark"
    /\ storage = SavedState(logs, settings, jobs, templates)


---------------------------------------------------------------------------
(* Reconciling again after a remediation: C26                              *)

\* The hour type a remediation log was made for, as its note names it.
RemediationType(l) ==
    IF l.notes \in {"Payslip Backfill (weekday)",
                    "Payslip Correction (weekday)"}
    THEN "weekday" ELSE "weekend"

\* C26: after a remediation for an hour type, the reconciliation of the
\* same inputs gives a difference within the tolerance for that type and
\* the difference it gave before for the other type.
C26_RemediationCloses ==
    [][logs' # logs =>
         \A type \in HourTypes :
            type = RemediationType(Head(logs'))
              => /\ Abs(DiffOf(type)') <= Tolerance
                 /\ \A other \in HourTypes \ {type} :
                       DiffOf(other)' = DiffOf(other)]_vars


---------------------------------------------------------------------------
(* At least one job: C27                                                   *)

\* C27: once the load has completed there is at least one job.
C27_AlwaysAJob == isLoaded => Len(jobs) >= 1

\* Adding and deleting jobs and importing keep at least one job once there
\* is one: no step of the loaded App empties a list of jobs that is not
\* empty.
C27_LastJobIsKept ==
    [][(isLoaded /\ Len(jobs) >= 1) => Len(jobs') >= 1]_vars

---------------------------------------------------------------------------
(* A load that fails: C28                                                  *)

\* C28: a load that fails on the stored item leaves the stored item as it
\* was.
C28_FailedLoadKeepsBlob ==
    [][(LoadStep /\ ~LoadResult(storage, uuidCtr).ok)
         => storage' = storage]_vars

\* A load that fails is followed by the save of the empty state.
C28_FailedLoadStoresFreshState ==
    [][(LoadStep /\ ~LoadResult(storage, uuidCtr).ok)
         => storage' = SavedState(FreshState.logs, FreshState.settings,
                                  FreshState.jobs, FreshState.templates)]_vars

---------------------------------------------------------------------------
(* Import against load-time migration: C29                                 *)

\* The file is one handleFileChange passes to handleImport.
Importable(file) ==
    /\ file # Unparsable
    /\ "logs" \in DOMAIN file
    /\ "settings" \in DOMAIN file

\* C29: the import of a file whose jobs are empty gives what the load-time
\* migration of the same blob gives: one job that, apart from its id, is
\* the job the migration makes, and every log that has a jobId keeps it.
C29_ImportLikeMigration ==
    [][\A file \in ImportSamples :
          (/\ Importable(file)
           /\ Len(FieldOr(file, "jobs", <<>>)) = 0
           /\ handleFileChange(file, TRUE))
            => LET m == Migrate(file, uuidCtr).state
               IN  /\ Len(jobs') = 1
                   /\ [jobs'[1] EXCEPT !.id = NoId]
                        = [m.jobs[1] EXCEPT !.id = NoId]
                   /\ Len(logs') = Len(file.logs)
                   /\ \A k \in 1..Len(file.logs) :
                         file.logs[k].jobId # NoId
                           => logs'[k].jobId = file.logs[k].jobId]_vars

\* Import and migration agree on the weekday and weekend rate of the job
\* they make, on the settings and the templates, and on the logs that had
\* no jobId.
C29_ImportAgreesOnRates ==
    [][\A file \in ImportSamples :
          (/\ Importable(file)
           /\ Len(FieldOr(file, "jobs", <<>>)) = 0
           /\ handleFileChange(file, TRUE))
            => LET m == Migrate(file, uuidCtr).state
               IN  /\ Len(jobs') = 1
                   /\ jobs'[1].hourlyRate = m.jobs[1].hourlyRate
                   /\ jobs'[1].weekendHourlyRate = m.jobs[1].weekendHourlyRate
                   /\ jobs'[1].id = m.jobs[1].id
                   /\ settings' = m.settings
                   /\ templates' = m.templates
                   /\ \A k \in 1..Len(file.logs) :
                         file.logs[k].jobId = NoId => logs'[k] = m.logs[k]]_vars



---------------------------------------------------------------------------
(* Promotion and rate edits: C30                                           *)

\* The rates typed into the weekday rate and the next weekday rate of a
\* job.
RateEditValues == {65, 75}

TypeRate ==
    \E i \in 1..Len(jobs), field \in {"hourlyRate", "nextHourlyRate"},
       value \in RateEditValues :
       handleJobChange(jobs[i].id, field, value)

InitPromotion ==
    /\ tzWest = FALSE
    /\ uuidCtr = 100
    /\ jobs = <<JobL>>
    /\ logs = <<>>
    /\ settings = DEFAULT_SETTINGS
    /\ templates = <<>>
    /\ isLoaded = TRUE
    /\ storage = SavedState(logs, settings, jobs, templates)
    /\ CalIdle
    /\ VerIdle
    /\ rendered = NothingRendered
    /\ route = "/"
    /\ DashIdle
    /\ LogIdle(jobs)

NextPromotion ==
    \/ OpenDashboard
    \/ OpenWorkLogger
    \/ OpenSettings
    \/ SelectSomeDashJob
    \/ ClickLevelUp
    \/ SwitchMode
    \/ handleSubmit
    \/ ClickDeleteLog
    \/ TypeRate

SpecPromotion == InitPromotion /\ [][NextPromotion]_vars

\* The level-up is offered on the Dashboard for the i-th job.
OfferedAt(i) ==
    /\ route = "/"
    /\ canLevelUp
    /\ activeJobForLevelUp.id = jobs[i].id

\* The i-th job is eligible.
EligibleAt(i) == Eligible(jobs[i])

\* C30: a promotion happens only to a job whose hourly rate is below its
\* next hourly rate and leaves the two equal, so that the job is not
\* eligible right after it; a step that adds or deletes a log changes no
\* job; and in no state is the level-up offered for a job whose next
\* hourly rate is not above its hourly rate, whatever its logs. So a
\* promoted job stays ineligible until an edit of its rates, and is not
\* promoted twice without one.
C30_NoRepeatedPromotion ==
    [][/\ (route = "/" /\ jobs' # jobs)
          => \E i \in 1..Len(jobs) :
                /\ jobs[i].id = dashSelectedJobId
                /\ jobs[i].hourlyRate < jobs[i].nextHourlyRate
                /\ Len(jobs') = Len(jobs)
                /\ jobs'[i].hourlyRate = jobs'[i].nextHourlyRate
                /\ \A k \in 1..Len(jobs) : k # i => jobs'[k] = jobs[k]
                /\ ~EligibleAt(i)'
                /\ ~OfferedAt(i)'
       /\ logs' # logs => jobs' = jobs
       /\ \A i \in 1..Len(jobs') :
             jobs'[i].hourlyRate >= jobs'[i].nextHourlyRate
               => ~OfferedAt(i)']_vars

\* Job 1 has been promoted (its weekend rate is the next weekend rate),
\* its logs reach its target and it is selected on the Dashboard; the
\* level-up is not offered.
C30_Witness ==
    /\ route = "/"
    /\ dashSelectedJobId = 1
    /\ jobs[1].weekendHourlyRate = 85
    /\ jobs[1].hourlyRate = jobs[1].nextHourlyRate
    /\ HoursLoggedFor(1) >= jobs[1].targetHours * 1000
    /\ Len(logs) > 0
    /\ ~canLevelUp

\* Job 1 has been promoted twice, with an edit of its next rate between
\* the two promotions.
C30_PromotedAgainAfterEdit ==
    /\ jobs[1].weekendHourlyRate = 85
    /\ jobs[1].hourlyRate = 75
    /\ jobs[1].nextHourlyRate = 75
    /\ storage.jobs = jobs


====
